---- MODULE Spec2Model ----
(***************************************************************************)
(* CounselFlow-Neo: the centralized data-access hub                        *)
(* (DataManagementHubService) and the context layer on top of it           *)
(* (DataContextProviderService).                                           *)
(*                                                                         *)
(* Strings are sequences of one-character strings, so that the cache-key   *)
(* derivation (JSON.stringify, base64, slice) and the Redis glob patterns  *)
(* of the invalidation are computed character by character, as the code    *)
(* computes them.                                                          *)
(***************************************************************************)
EXTENDS Integers, Sequences, FiniteSets, TLC

(***************************************************************************)
(* Characters                                                              *)
(***************************************************************************)

\* The printable ASCII characters, code 32 (space) first (code 96 is not used
\* by any string of the model and is named, not written).
AsciiTable ==
  << " ", "!", "\"", "#", "$", "%", "&", "'", "(", ")", "*", "+", ",", "-", ".", "/",
     "0", "1", "2", "3", "4", "5", "6", "7", "8", "9", ":", ";", "<", "=", ">", "?",
     "@", "A", "B", "C", "D", "E", "F", "G", "H", "I", "J", "K", "L", "M", "N", "O",
     "P", "Q", "R", "S", "T", "U", "V", "W", "X", "Y", "Z", "[", "\\", "]", "^", "_",
     "GRAVE", "a", "b", "c", "d", "e", "f", "g", "h", "i", "j", "k", "l", "m", "n", "o",
     "p", "q", "r", "s", "t", "u", "v", "w", "x", "y", "z", "{", "|", "}", "~" >>

\* The byte Buffer.from(s) holds for character c (ASCII, one byte each).
Ord(c) == 31 + (CHOOSE i \in 1..Len(AsciiTable) : AsciiTable[i] = c)

\* The base64 alphabet of Buffer.toString('base64').
B64Alphabet ==
  << "A", "B", "C", "D", "E", "F", "G", "H", "I", "J", "K", "L", "M", "N", "O", "P",
     "Q", "R", "S", "T", "U", "V", "W", "X", "Y", "Z", "a", "b", "c", "d", "e", "f",
     "g", "h", "i", "j", "k", "l", "m", "n", "o", "p", "q", "r", "s", "t", "u", "v",
     "w", "x", "y", "z", "0", "1", "2", "3", "4", "5", "6", "7", "8", "9", "+", "/" >>

B64Char(n) == B64Alphabet[n + 1]

Take(s, n) == SubSeq(s, 1, IF Len(s) < n THEN Len(s) ELSE n)

RECURSIVE Concat(_)
Concat(ss) == IF ss = << >> THEN << >> ELSE Head(ss) \o Concat(Tail(ss))

(***************************************************************************)
(* JSON values and JSON.stringify                                          *)
(*                                                                         *)
(* A JavaScript object is the sequence of its members in insertion order:  *)
(* JSON.stringify writes them in that order.  A member whose value is      *)
(* undefined is not written, so an absent member and an undefined one are  *)
(* the same value here.                                                    *)
(***************************************************************************)

NoKids == << >>

JStr(s)  == [t |-> "str",  s |-> s,     n |-> 0, kids |-> NoKids]
JNum(n)  == [t |-> "num",  s |-> << >>, n |-> n, kids |-> NoKids]
JBool(b) == [t |-> "bool", s |-> << >>, n |-> IF b THEN 1 ELSE 0, kids |-> NoKids]
JObj(ms) == [t |-> "obj",  s |-> << >>, n |-> 0, kids |-> ms]
JArr(vs) == [t |-> "arr",  s |-> << >>, n |-> 0,
             kids |-> [i \in 1..Len(vs) |-> [k |-> << >>, v |-> vs[i]]]]

\* One member of an object: key k, value v.
M(k, v) == [k |-> k, v |-> v]

HasField(o, k) == \E i \in 1..Len(o.kids) : o.kids[i].k = k
Field(o, k) == o.kids[CHOOSE i \in 1..Len(o.kids) : o.kids[i].k = k].v

Digit(d) == AsciiTable[17 + d]

RECURSIVE Decimal(_)
Decimal(n) == IF n < 10 THEN << Digit(n) >> ELSE Decimal(n \div 10) \o << Digit(n % 10) >>

\* JSON.stringify's quoting of a string: " and \ are escaped.
RECURSIVE Escaped(_)
Escaped(s) ==
  IF s = << >> THEN << >>
  ELSE (IF Head(s) \in {"\"", "\\"} THEN << "\\", Head(s) >> ELSE << Head(s) >>)
       \o Escaped(Tail(s))

Quoted(s) == << "\"" >> \o Escaped(s) \o << "\"" >>

RECURSIVE Stringify(_)
RECURSIVE StringifyKids(_, _)
StringifyKids(kids, isObj) ==
  IF kids = << >> THEN << >>
  ELSE (IF isObj THEN Quoted(Head(kids).k) \o << ":" >> ELSE << >>)
       \o Stringify(Head(kids).v)
       \o (IF Len(kids) > 1 THEN << "," >> ELSE << >>)
       \o StringifyKids(Tail(kids), isObj)

Stringify(v) ==
  CASE v.t = "str"  -> Quoted(v.s)
    [] v.t = "num"  -> Decimal(v.n)
    [] v.t = "bool" -> IF v.n = 1 THEN << "t", "r", "u", "e" >>
                                  ELSE << "f", "a", "l", "s", "e" >>
    [] v.t = "obj"  -> << "{" >> \o StringifyKids(v.kids, TRUE) \o << "}" >>
    [] v.t = "arr"  -> << "[" >> \o StringifyKids(v.kids, FALSE) \o << "]" >>

(***************************************************************************)
(* base64                                                                  *)
(***************************************************************************)

\* Buffer.from(s).toString('base64'): three bytes make four characters, a
\* last group of one or two bytes is padded with "=".
RECURSIVE Base64(_)
Base64(s) ==
  IF s = << >> THEN << >>
  ELSE LET a == Ord(s[1])
           b == IF Len(s) >= 2 THEN Ord(s[2]) ELSE 0
           c == IF Len(s) >= 3 THEN Ord(s[3]) ELSE 0
       IN  << B64Char(a \div 4), B64Char((a % 4) * 16 + b \div 16) >>
           \o (IF Len(s) >= 2 THEN << B64Char((b % 16) * 4 + c \div 64) >> ELSE << "=" >>)
           \o (IF Len(s) >= 3 THEN << B64Char(c % 64) >> ELSE << "=" >>)
           \o (IF Len(s) > 3 THEN Base64(SubSeq(s, 4, Len(s))) ELSE << >>)

(***************************************************************************)
(* Cache keys                                                              *)
(***************************************************************************)

\* cacheConfig.prefix
prefix == << "d", "m", "h", ":" >>

\* .slice(0, 16) of the base64 text
HashLen == 16

generateCacheKey(type, data) ==
  LET hash == Take(Base64(Stringify(data)), HashLen)
  IN  prefix \o type \o << ":" >> \o hash

T_query     == << "q", "u", "e", "r", "y" >>
T_analytics == << "a", "n", "a", "l", "y", "t", "i", "c", "s" >>


(***************************************************************************)
(* Redis glob patterns (KEYS pattern): "*" matches any run of characters,  *)
(* every other character of the patterns built here matches itself.        *)
(***************************************************************************)

RECURSIVE GlobMatch(_, _)
GlobMatch(p, s) ==
  IF p = << >> THEN s = << >>
  ELSE IF Head(p) = "*"
       THEN GlobMatch(Tail(p), s) \/ (s # << >> /\ GlobMatch(p, Tail(s)))
       ELSE s # << >> /\ Head(s) = Head(p) /\ GlobMatch(Tail(p), Tail(s))

(***************************************************************************)
(* Entities, rows and the primary store                                    *)
(***************************************************************************)

Client       == << "C", "l", "i", "e", "n", "t" >>
Case         == << "C", "a", "s", "e" >>
Document     == << "D", "o", "c", "u", "m", "e", "n", "t" >>
User         == << "U", "s", "e", "r" >>
Message      == << "M", "e", "s", "s", "a", "g", "e" >>
Payment      == << "P", "a", "y", "m", "e", "n", "t" >>
Notification == << "N", "o", "t", "i", "f", "i", "c", "a", "t", "i", "o", "n" >>

\* registerRepositories: the names this.repositories holds.
registerRepositories == { Client, Case, Document, User, Message, Payment, Notification }

NoRepository == << >>

\* this.repositories.get(entityName) || null
getRepository(entityName) ==
  IF entityName \in registerRepositories THEN entityName ELSE NoRepository

\* Record ids, in the order the store hands out new ones.
IdOrder == << << "c", "1" >>, << "c", "2" >> >>
Ids == { IdOrder[i] : i \in 1..Len(IdOrder) }

\* The ids of the documents a store may hold from the start.
DocumentIds(n) == [i \in 1..n |-> << "d" >> \o Decimal(i)]
NoId == << >>

StatusA == << "A" >>
StatusB == << "B" >>

\* The constructor name of a record that came out of JSON.parse.
PlainObject == << "O", "b", "j", "e", "c", "t" >>

\* A row as the repository returns it: an instance of the entity class.
Row(kind, id, status) == [kind |-> kind, id |-> id, status |-> status]

\* JSON.stringify(results): own fields only, the class is not written.
ToJson(rows) == [i \in 1..Len(rows) |-> [id |-> rows[i].id, status |-> rows[i].status]]

\* JSON.parse(cached): plain objects.
FromJson(data) == [i \in 1..Len(data) |-> Row(PlainObject, data[i].id, data[i].status)]

F_entity    == << "e", "n", "t", "i", "t", "y" >>
F_filters   == << "f", "i", "l", "t", "e", "r", "s" >>
F_relations == << "r", "e", "l", "a", "t", "i", "o", "n", "s" >>
F_orderBy   == << "o", "r", "d", "e", "r", "B", "y" >>
F_limit     == << "l", "i", "m", "i", "t" >>
F_offset    == << "o", "f", "f", "s", "e", "t" >>
F_cache     == << "c", "a", "c", "h", "e" >>
F_cacheTTL  == << "c", "a", "c", "h", "e", "T", "T", "L" >>
F_status    == << "s", "t", "a", "t", "u", "s" >>
F_id        == << "i", "d" >>

\* query.cache !== false
\* A cache flag that is not consulted.
CacheEnabled_Always(q) == TRUE

CacheEnabled(q) == ~(HasField(q, F_cache) /\ Field(q, F_cache) = JBool(FALSE))

QEntity(q) == Field(q, F_entity).s

\* One andWhere clause: a list is IN, anything else is equality.
FilterHolds(row, key, value) ==
  LET col == IF key = F_status THEN row.status ELSE IF key = F_id THEN row.id ELSE NoId
  IN  IF value.t = "arr"
      THEN \E i \in 1..Len(value.kids) : value.kids[i].v = JStr(col)
      ELSE value = JStr(col)

RowMatches(row, q) ==
  ~HasField(q, F_filters)
  \/ \A i \in 1..Len(Field(q, F_filters).kids) :
       FilterHolds(row, Field(q, F_filters).kids[i].k, Field(q, F_filters).kids[i].v)

RECURSIVE RowsInOrder(_, _, _)
RowsInOrder(table, q, i) ==
  LET order == IdOrder \o DocumentIds(Cardinality(table))
  IN  IF i > Len(order) THEN << >>
      ELSE (IF \E r \in table : r.id = order[i] /\ RowMatches(r, q)
            THEN << CHOOSE r \in table : r.id = order[i] >> ELSE << >>)
           \o RowsInOrder(table, q, i + 1)

\* queryBuilder.getMany(): the matching rows, limited by take(query.limit)
\* (a limit of 0 is falsy and not applied).
getMany(table, q) ==
  LET rows == RowsInOrder(table, q, 1)
  IN  IF HasField(q, F_limit) /\ Field(q, F_limit).n > 0
      THEN Take(rows, Field(q, F_limit).n) ELSE rows

\* cacheConfig.ttl
DefaultTTL == 3600

\* query.cacheTTL as the caller wrote it, if the caller wrote one.
GivenTTL(q) == IF HasField(q, F_cacheTTL) THEN << Field(q, F_cacheTTL).n >> ELSE << >>

\* query.cacheTTL || this.cacheConfig.ttl
QueryTTL(q) ==
  IF HasField(q, F_cacheTTL) /\ Field(q, F_cacheTTL).n # 0
  THEN Field(q, F_cacheTTL).n ELSE DefaultTTL

(***************************************************************************)
(* The requests the callers of the hub issue                               *)
(***************************************************************************)

Q_CaseList     == JObj(<< M(F_entity, JStr(Case)) >>)
Q_CaseByStatus == JObj(<< M(F_entity, JStr(Case)),
                          M(F_filters, JObj(<< M(F_status, JStr(StatusA)) >>)) >>)
Q_ClientList   == JObj(<< M(F_entity, JStr(Client)) >>)
Q_CaseNoCache  == JObj(<< M(F_entity, JStr(Case)), M(F_cache, JBool(FALSE)) >>)

HubQueries == { Q_CaseList, Q_CaseByStatus, Q_ClientList, Q_CaseNoCache }

\* A DataMutation; data.id is NoId when the payload carries no id.
Mutation(entity, operation, id, status) ==
  [entity |-> entity, operation |-> operation, id |-> id, status |-> status,
   validateRelations |-> TRUE, auditTrail |-> TRUE]

HubMutations ==
  { Mutation(Case, "create", NoId, StatusA),
    Mutation(Case, "update", IdOrder[1], StatusB),
    Mutation(Case, "delete", IdOrder[1], StatusA),
    Mutation(Case, "upsert", IdOrder[2], StatusA),
    Mutation(Case, "archive", IdOrder[1], StatusA) }

\* How many calls the callers issue in one behaviour, and how many failures
\* of Redis, the database or an event listener are injected into them.
MaxCalls == 3
MaxFaults == 1

QSlots == { "q1" }

VARIABLES
  store,    \* the primary store: entity name -> the rows of its table
  ver,      \* entity name -> how many commits have changed its table
  acked,    \* entity name -> ver as of the last mutate that returned normally
  cache,    \* Redis: key -> entry
  metrics,  \* this.metrics
  qcall,    \* the calls of query() in progress, one per caller
  mcall,    \* the call of mutate() in progress
  issued,   \* the shapes query() was called with (caching enabled or not)
  calls,    \* calls issued so far
  faults,   \* failures injected so far
  hcall     \* the call of another operation of the hub in progress

hubVars ==
  << store, ver, acked, cache, metrics, qcall, mcall, issued, calls, faults, hcall >>

\* Two requests of one kind and the keys generateCacheKey derives for them.
VARIABLES kin, kout

keyVars == << kin, kout >>

\* The context provider: its call in progress, its userContextCache, the
\* requests made of it so far, and the prefetches it has started.
VARIABLES pcall, userContextCache, requests, prefetch

provVars == << pcall, userContextCache, requests, prefetch >>

\* Redis's clock, in seconds since the hub was constructed.
VARIABLE now

vars == << hubVars, hcall, now, keyVars, provVars >>

NoQuery == JObj(<< >>)
NoKey == << >>

\* A call of query().  Beside the code's own locals it records, for the
\* properties: reads, the storage round-trips of the call; src and srcVer,
\* the table and the version of it the returned rows were read from; minVer,
\* the version of the entity's table the caller had seen acknowledged when the
\* call started; first, whether no call of this shape was issued before;
\* prev, the call that ended before this one started; hits0, cacheHits at the
\* start; fault, the kinds of failures injected into the call; age and
\* given, of the cache entry that was served: how long ago it was written
\* and the cacheTTL its writer was called with.
NoPrev == [q |-> NoQuery, json |-> << >>, ok |-> FALSE]

IdleQuery ==
  [pc |-> "idle", q |-> NoQuery, key |-> NoKey, rows |-> << >>,
   minVer |-> 0, outcome |-> "none", err |-> "none", fault |-> { },
   reads |-> 0, hit |-> FALSE, src |-> NoRepository, srcVer |-> 0,
   first |-> FALSE, prev |-> NoPrev, hits0 |-> 0, age |-> 0, given |-> << >>,
   misses0 |-> 0, total0 |-> 0]

FaultChoice == IF faults < MaxFaults THEN { FALSE, TRUE } ELSE { FALSE }

Inject(f) == faults' = IF f THEN faults + 1 ELSE faults

\* The first error of a call is the one remembered as the original.
Note(old, err) == IF old = "none" THEN err ELSE old

(***************************************************************************)
(* query(): lines 460-550.  One action per await; each action is what the  *)
(* collaborator does plus the code up to the next await.                   *)
(***************************************************************************)

\* Query metrics kept over a window that is started afresh.
updateQueryMetrics_Window(m) == [m EXCEPT !.totalQueries = @ + 1, !.cacheMisses = 0]

\* Query metrics that count an executed query twice.
updateQueryMetrics_Twice(m) == [m EXCEPT !.totalQueries = @ + 2]

\* updateQueryMetrics, lines 786-791, without the average query time.
updateQueryMetrics(m) == [m EXCEPT !.totalQueries = @ + 1]

\* Lines 531-544: updateQueryMetrics, emit 'data.accessed', return results.
\* f: a listener of the event throws, and emit throws with it.
QueryFinish(c, f) ==
  [c EXCEPT !.pc = "done",
            !.outcome = IF f THEN "error" ELSE "ok",
            !.err = IF f THEN "ListenerError" ELSE "none",
            !.fault = IF f THEN c.fault \cup { "emit" } ELSE c.fault]

\* Lines 476-480: the repository lookup before the storage query is built.
QueryLookup(c) ==
  IF getRepository(QEntity(c.q)) = NoRepository
  THEN [c EXCEPT !.pc = "done", !.outcome = "error", !.err = "EntityNotRegistered"]
  ELSE [c EXCEPT !.pc = "read"]

\* Lines 461-468: the call starts, queryCount++, and either awaits redis.get
\* or goes on to the repository.
StartQuery(i, q) ==
  /\ qcall[i].pc \in { "idle", "done" }
  /\ metrics' = [metrics EXCEPT !.queryCount = @ + 1]
  /\ issued' = issued \cup { q }
  /\ LET c == [IdleQuery EXCEPT
                 !.q = q,
                 !.minVer = IF QEntity(q) \in DOMAIN acked THEN acked[QEntity(q)] ELSE 0,
                 !.first = q \notin issued,
                 !.hits0 = metrics.cacheHits,
                 !.misses0 = metrics.cacheMisses,
                 !.total0 = metrics.totalQueries,
                 !.prev = [q |-> qcall[i].q, json |-> ToJson(qcall[i].rows),
                           ok |-> qcall[i].outcome = "ok"]]
     IN  qcall' = [qcall EXCEPT ![i] =
           IF CacheEnabled(q)
           THEN [c EXCEPT !.pc = "get", !.key = generateCacheKey(T_query, q)]
           ELSE QueryLookup(c)]

\* A caller of the hub calls query(q).
QueryIssue(i, q) ==
  /\ calls < MaxCalls
  /\ calls' = calls + 1
  /\ StartQuery(i, q)
  /\ UNCHANGED << store, ver, acked, cache, mcall, faults, hcall, now, keyVars, provVars >>

\* getFromCache (757-765) and lines 469-480: a failed read is a miss.
QueryCacheGet(i) ==
  /\ qcall[i].pc = "get"
  /\ \E f \in FaultChoice :
       LET c == qcall[i]
           found == ~f /\ c.key \in DOMAIN cache
       IN  /\ Inject(f)
           /\ IF found
              THEN /\ metrics' = [metrics EXCEPT !.cacheHits = @ + 1]
                   /\ qcall' = [qcall EXCEPT ![i] =
                        [c EXCEPT !.pc = "done", !.outcome = "ok", !.hit = TRUE,
                                  !.rows = FromJson(cache[c.key].data),
                                  !.src = cache[c.key].src,
                                  !.srcVer = cache[c.key].srcVer,
                                  !.age = now - cache[c.key].at,
                                  !.given = cache[c.key].given]]
              ELSE /\ metrics' = [metrics EXCEPT !.cacheMisses = @ + 1]
                   /\ qcall' = [qcall EXCEPT ![i] =
                        QueryLookup([c EXCEPT !.fault = IF f THEN @ \cup { "cache" } ELSE @])]
  /\ UNCHANGED << store, ver, acked, cache, mcall, issued, calls, hcall, now, keyVars, provVars >>

\* Line 522, getMany, and lines 524-544.
QueryRead(i) ==
  /\ qcall[i].pc = "read"
  /\ \E f \in FaultChoice, g \in FaultChoice :
       LET c == qcall[i]
           e == QEntity(c.q)
           got == [c EXCEPT !.rows = getMany(store[e], c.q), !.reads = @ + 1,
                            !.src = e, !.srcVer = ver[e]]
       IN  /\ Inject(f \/ g)
           /\ ~(f /\ g)
           /\ IF f
              THEN /\ qcall' = [qcall EXCEPT ![i] =
                        [c EXCEPT !.pc = "done", !.outcome = "error", !.reads = @ + 1,
                                  !.err = "StorageError", !.fault = @ \cup { "db" }]]
                   /\ UNCHANGED metrics
              ELSE IF CacheEnabled(c.q)
              THEN /\ g = FALSE
                   /\ qcall' = [qcall EXCEPT ![i] = [got EXCEPT !.pc = "set"]]
                   /\ UNCHANGED metrics
              ELSE /\ qcall' = [qcall EXCEPT ![i] = QueryFinish(got, g)]
                   /\ metrics' = updateQueryMetrics(metrics)
  /\ UNCHANGED << store, ver, acked, cache, mcall, issued, calls, hcall, now, keyVars, provVars >>

\* setCache (767-773) and lines 531-544: a failed write is swallowed.
QueryCacheSet(i) ==
  /\ qcall[i].pc = "set"
  /\ \E f \in FaultChoice, g \in FaultChoice :
       LET c == qcall[i]
       IN  /\ Inject(f \/ g)
           /\ ~(f /\ g)
           /\ cache' = IF f THEN cache
                       ELSE [k \in DOMAIN cache \cup { c.key } |->
                               IF k = c.key
                               THEN [data |-> ToJson(c.rows), ttl |-> QueryTTL(c.q),
                                     src |-> c.src, srcVer |-> c.srcVer,
                                     at |-> now, given |-> GivenTTL(c.q)]
                               ELSE cache[k]]
           /\ qcall' = [qcall EXCEPT ![i] =
                QueryFinish([c EXCEPT !.fault = IF f THEN @ \cup { "cache" } ELSE @], g)]
           /\ metrics' = updateQueryMetrics(metrics)
  /\ UNCHANGED << store, ver, acked, mcall, issued, calls, hcall, now, keyVars, provVars >>

Query ==
  \E i \in QSlots :
    \/ \E q \in HubQueries : QueryIssue(i, q)
    \/ QueryCacheGet(i)
    \/ QueryRead(i)
    \/ QueryCacheSet(i)


(***************************************************************************)
(* mutate(): lines 556-629                                                 *)
(***************************************************************************)

NoMutation == Mutation(NoRepository, "none", NoId, StatusA)

IdleMutate ==
  [pc |-> "idle", m |-> NoMutation, tx |-> "none", table |-> { }, keys |-> { },
   log |-> << >>, pend |-> "none", outcome |-> "none", err |-> "none",
   err0 |-> "none", fault |-> { }, cleanupFailed |-> FALSE, released |-> FALSE,
   store0 |-> { }, connected |-> FALSE, releases |-> 0]

SupportedOperations_NoDefault == { "create", "update", "delete", "upsert", "archive" }

SupportedOperations == { "create", "update", "delete", "upsert" }

\* Lines 571-593: what the operation does to the entity's table.  save()
\* inserts, or replaces the row of the same id; a payload without id gets
\* the next id of the store.
ApplyOperation(table, m) ==
  LET free == { i \in 1..Len(IdOrder) : \A r \in table : r.id # IdOrder[i] }
      newId == IF m.id # NoId THEN m.id
               ELSE IdOrder[CHOOSE i \in free : \A j \in free : i <= j]
      saved == { r \in table : r.id # newId } \cup { Row(m.entity, newId, m.status) }
  IN  CASE m.operation \in { "create", "upsert" } -> saved
        [] m.operation = "update" ->
             { IF r.id = m.id THEN Row(r.kind, r.id, m.status) ELSE r : r \in table }
        [] m.operation = "delete" -> { r \in table : r.id # m.id }
        [] OTHER -> table

\* The store has an id left for a payload that carries none.
HasRoom(table, m) ==
  m.id # NoId \/ m.operation \notin { "create", "upsert" }
  \/ \E i \in 1..Len(IdOrder) : \A r \in table : r.id # IdOrder[i]

\* invalidateEntityCache, lines 776-778: the pattern handed to redis.keys.
InvalidationPattern(entity, id) ==
  IF id # NoId
  THEN prefix \o << "*" >> \o entity \o << "*" >> \o id \o << "*" >>
  ELSE prefix \o << "*" >> \o entity \o << "*" >>

\* redis.keys(pattern)
RedisKeys(pattern) == { k \in DOMAIN cache : GlobMatch(pattern, k) }

\* The awaited steps of a mutate that meets no failure, in the order of the
\* code: 558, 559, 571-593, 596, 599, 607, 627.
MutateSteps_EmitBeforeCommit ==
  << "connect", "begin", "op", "emit", "commit", "invalidate", "release" >>

MutateSteps == << "connect", "begin", "op", "commit", "invalidate", "emit", "release" >>

After(pc) == MutateSteps[(CHOOSE i \in 1..Len(MutateSteps) : MutateSteps[i] = pc) + 1]

\* A failed commit that is noted and passed over.
Caught_CommitPassedOver(c, err, kind) ==
  [c EXCEPT !.pc = IF @ = "commit" THEN "invalidate" ELSE "rollback",
            !.pend = "error", !.err = err,
            !.err0 = Note(@, err), !.fault = @ \cup kind]

\* Lines 622-625: an error inside the try block goes to the catch block.
Caught(c, err, kind) ==
  [c EXCEPT !.pc = "rollback", !.pend = "error", !.err = err,
            !.err0 = Note(@, err), !.fault = @ \cup kind]

\* An error outside the try block leaves mutate at once.
Escaped0(c, err, kind) ==
  [c EXCEPT !.pc = "done", !.outcome = "error", !.err = err,
            !.err0 = Note(@, err), !.fault = @ \cup kind]

\* Line 557: the query runner is created.
StartMutate(m) ==
  /\ mcall.pc \in { "idle", "done" }
  /\ HasRoom(store[m.entity], m)
  /\ mcall' = [IdleMutate EXCEPT !.pc = "connect", !.m = m, !.store0 = store[m.entity]]

\* Lines 571-589: the result mutate returns.  save gives the saved row,
\* update the row findOne reads back (none when the id is unknown), delete
\* the number of rows affected.
mutateResult(c) ==
  CASE c.m.operation = "delete" ->
         [rows |-> { }, affected |-> Cardinality(c.store0 \ c.table)]
    [] c.m.operation = "update" ->
         [rows |-> { r \in c.table : r.id = c.m.id }, affected |-> 0]
    [] OTHER ->
         [rows |-> IF c.m.id # NoId THEN { r \in c.table : r.id = c.m.id }
                   ELSE c.table \ c.store0,
          affected |-> 0]

\* A caller of the hub calls mutate(m).
MutateIssue(m) ==
  /\ calls < MaxCalls
  /\ calls' = calls + 1
  /\ StartMutate(m)
  /\ UNCHANGED << store, ver, acked, cache, metrics, qcall, issued, faults, hcall, now, keyVars, provVars >>

\* Line 558: queryRunner.connect().
MutateConnect ==
  /\ mcall.pc = "connect"
  /\ \E f \in FaultChoice :
       /\ Inject(f)
       /\ mcall' = IF f THEN Escaped0(mcall, "StorageError", { "db" })
                   ELSE [mcall EXCEPT !.pc = After("connect"), !.connected = TRUE]
  /\ UNCHANGED << store, ver, acked, cache, metrics, qcall, issued, calls, hcall, now, keyVars, provVars >>

\* Line 559, startTransaction, and lines 562-571 up to the dispatch: an
\* operation the switch does not know throws at line 592.
MutateBegin ==
  /\ mcall.pc = "begin"
  /\ \E f \in FaultChoice :
       /\ Inject(f)
       /\ mcall' =
            IF f THEN Escaped0(mcall, "StorageError", { "db" })
            ELSE LET c == [mcall EXCEPT !.tx = "active", !.log = Append(@, "begin")]
                 IN  IF c.m.operation \in SupportedOperations
                     THEN [c EXCEPT !.pc = After("begin")]
                     ELSE Caught(c, "UnsupportedOperation", { })
  /\ UNCHANGED << store, ver, acked, cache, metrics, qcall, issued, calls, hcall, now, keyVars, provVars >>

\* Lines 572-589: the writes of the operation, inside the transaction.
MutateOp ==
  /\ mcall.pc = "op"
  /\ \E f \in FaultChoice :
       /\ Inject(f)
       /\ mcall' =
            IF f THEN Caught(mcall, "StorageError", { "db" })
            ELSE [mcall EXCEPT !.pc = After("op"),
                               !.table = ApplyOperation(store[mcall.m.entity], mcall.m)]
  /\ UNCHANGED << store, ver, acked, cache, metrics, qcall, issued, calls, hcall, now, keyVars, provVars >>

\* Line 596: commitTransaction makes the writes visible.
MutateCommit ==
  /\ mcall.pc = "commit"
  /\ \E f \in FaultChoice :
       LET e == mcall.m.entity
       IN  /\ Inject(f)
           /\ IF f
              THEN /\ mcall' = Caught(mcall, "StorageError", { "db" })
                   /\ UNCHANGED << store, ver >>
              ELSE /\ store' = [store EXCEPT ![e] = mcall.table]
                   /\ ver' = [ver EXCEPT ![e] = IF mcall.table # store[e] THEN @ + 1 ELSE @]
                   /\ mcall' = [mcall EXCEPT !.pc = After("commit"), !.tx = "committed",
                                             !.log = Append(@, "commit")]
  /\ UNCHANGED << acked, cache, metrics, qcall, issued, calls, hcall, now, keyVars, provVars >>

\* invalidateEntityCache, lines 775-784: redis.keys(pattern), then
\* redis.del(...keys) when a key was found.  Neither call is guarded: a
\* failure of either throws into the catch block of mutate.  The audit entry
\* that follows (603) is a placeholder.
MutateInvalidate ==
  /\ mcall.pc = "invalidate"
  /\ \E f \in FaultChoice :
       LET keys == RedisKeys(InvalidationPattern(mcall.m.entity, mcall.m.id))
       IN  /\ Inject(f)
           /\ IF f
              THEN /\ mcall' = Caught(mcall, "CacheError", { "cache" })
                   /\ UNCHANGED cache
              ELSE /\ cache' = [k \in DOMAIN cache \ keys |-> cache[k]]
                   /\ mcall' = [mcall EXCEPT !.pc = After("invalidate"), !.keys = keys,
                                             !.log = Append(@, "invalidate")]
  /\ UNCHANGED << store, ver, acked, metrics, qcall, issued, calls, hcall, now, keyVars, provVars >>

\* Lines 607-618: emit 'data.mutated' (a listener that throws makes emit
\* throw); syncRealTimeData is a placeholder.
MutateEmit ==
  /\ mcall.pc = "emit"
  /\ \E f \in FaultChoice :
       /\ Inject(f)
       /\ mcall' =
            IF f THEN Caught(mcall, "ListenerError", { "emit" })
            ELSE [mcall EXCEPT !.pc = After("emit"), !.pend = "ok",
                               !.log = Append(@, "emit")]
  /\ UNCHANGED << store, ver, acked, cache, metrics, qcall, issued, calls, hcall, now, keyVars, provVars >>

\* Line 623: rollbackTransaction in the catch block.  On a transaction that
\* is still active it undoes the writes; its own failure replaces the error
\* being handled.  On a transaction already committed the driver either
\* refuses (and its error replaces the one being handled) or does nothing.
MutateRollback ==
  /\ mcall.pc = "rollback"
  /\ \E f \in FaultChoice, refuse \in BOOLEAN :
       /\ Inject(f)
       /\ mcall.tx = "active" => ~refuse
       /\ mcall.tx # "active" => ~f
       /\ mcall' =
            [mcall EXCEPT !.pc = "release",
                          !.log = Append(@, "rollback"),
                          !.tx = IF @ = "active" /\ ~f THEN "rolledback" ELSE @,
                          !.err = IF f THEN "StorageError"
                                  ELSE IF refuse THEN "TransactionNotStarted" ELSE @,
                          !.fault = IF f THEN @ \cup { "db" } ELSE @,
                          !.cleanupFailed = f]
  /\ UNCHANGED << store, ver, acked, cache, metrics, qcall, issued, calls, hcall, now, keyVars, provVars >>

\* Lines 620-628: the finally block releases the runner, then mutate returns
\* or throws; a failure of release is what the caller gets.
MutateRelease ==
  /\ mcall.pc = "release"
  /\ \E f \in FaultChoice :
       LET ok == mcall.pend = "ok" /\ ~f
           e == mcall.m.entity
       IN  /\ Inject(f)
           /\ mcall' =
                [mcall EXCEPT !.pc = "done", !.released = ~f, !.releases = @ + 1,
                              !.outcome = IF ok THEN "ok" ELSE "error",
                              !.err = IF f THEN "StorageError" ELSE @,
                              !.err0 = IF f THEN Note(@, "StorageError") ELSE @,
                              !.fault = IF f THEN @ \cup { "db" } ELSE @,
                              !.cleanupFailed = @ \/ f,
                              !.log = IF ok THEN Append(@, "return") ELSE @]
           /\ acked' = IF ok THEN [acked EXCEPT ![e] = ver[e]] ELSE acked
  /\ UNCHANGED << store, ver, cache, metrics, qcall, issued, calls, hcall, now, keyVars, provVars >>

Mutate ==
  \/ \E m \in HubMutations : MutateIssue(m)
  \/ MutateConnect
  \/ MutateBegin
  \/ MutateOp
  \/ MutateCommit
  \/ MutateInvalidate
  \/ MutateEmit
  \/ MutateRollback
  \/ MutateRelease

(***************************************************************************)
(* The hub and its callers                                                 *)
(***************************************************************************)

(***************************************************************************)
(* Key derivation on its own: two requests, and the keys derived for them  *)
(***************************************************************************)

Reverse(s) == [i \in 1..Len(s) |-> s[Len(s) + 1 - i]]

\* The members an optional field contributes to an object literal.
Opt(k, choice) == IF choice = << >> THEN << >> ELSE << M(k, choice[1]) >>

KeyEntities  == { Case, Client, Document }
KeyFilters   == { << >>, << JObj(<< M(F_status, JStr(StatusA)) >>) >>,
                  << JObj(<< M(F_id, JStr(IdOrder[1])) >>) >> }
KeyRelations == { << >>, << JArr(<< JStr(<< "d", "o", "c", "s" >>) >>) >> }
KeyLimits    == { << >>, << JNum(25) >> }

\* DataQuery values, written entity first or entity last.
KeyQueries ==
  LET members == { << M(F_entity, JStr(e)) >> \o Opt(F_filters, f)
                     \o Opt(F_relations, r) \o Opt(F_limit, l) :
                   e \in KeyEntities, f \in KeyFilters, r \in KeyRelations, l \in KeyLimits }
  IN  { JObj(ms) : ms \in members } \cup { JObj(Reverse(ms)) : ms \in members }

F_metrics     == << "m", "e", "t", "r", "i", "c", "s" >>
F_dimensions  == << "d", "i", "m", "e", "n", "s", "i", "o", "n", "s" >>
F_aggregation == << "a", "g", "g", "r", "e", "g", "a", "t", "i", "o", "n" >>
W_count == << "c", "o", "u", "n", "t" >>
W_avg   == << "a", "v", "g" >>
W_trend == << "t", "r", "e", "n", "d" >>
W_sum   == << "s", "u", "m" >>

\* AnalyticsQuery values, written metrics first or metrics last.
KeyAnalytics ==
  LET members == { << M(F_metrics, JArr(m)), M(F_dimensions, JArr(d)) >>
                     \o Opt(F_aggregation, g) :
                   m \in { << JStr(W_count) >>, << JStr(W_count), JStr(W_avg), JStr(W_trend) >> },
                   d \in { << JStr(Case) >>, << JStr(Client), JStr(Case) >> },
                   g \in { << >>, << JStr(W_sum) >> } }
  IN  { JObj(ms) : ms \in members } \cup { JObj(Reverse(ms)) : ms \in members }

KeyInputs(kind) == IF kind = T_query THEN KeyQueries ELSE KeyAnalytics

\* The same request: the same fields with the same values, in whatever
\* order the fields of an object were written.
RECURSIVE SameShape(_, _)
SameShape(a, b) ==
  /\ a.t = b.t /\ a.s = b.s /\ a.n = b.n
  /\ Len(a.kids) = Len(b.kids)
  /\ IF a.t = "obj"
     THEN \A i \in 1..Len(a.kids) : \E j \in 1..Len(b.kids) :
            a.kids[i].k = b.kids[j].k /\ SameShape(a.kids[i].v, b.kids[j].v)
     ELSE \A i \in 1..Len(a.kids) : SameShape(a.kids[i].v, b.kids[i].v)

KeyIdle ==
  /\ kin = [kind |-> T_query, a |-> NoQuery, b |-> NoQuery]
  /\ kout = [pc |-> "idle", ka |-> NoKey, kb |-> NoKey]

KeyInit ==
  /\ \E kind \in { T_query, T_analytics } :
       \E a \in KeyInputs(kind), b \in KeyInputs(kind) :
         kin = [kind |-> kind, a |-> a, b |-> b]
  /\ kout = [pc |-> "input", ka |-> NoKey, kb |-> NoKey]

KeyCompute ==
  /\ kout.pc = "input"
  /\ kout' = [pc |-> "computed", ka |-> generateCacheKey(kin.kind, kin.a),
              kb |-> generateCacheKey(kin.kind, kin.b)]
  /\ UNCHANGED << kin, hubVars, now, provVars >>

(***************************************************************************)
(* analytics(), createRelationship(), getContextualData(),                 *)
(* getPerformanceMetrics(), clearCache(): lines 635-734                    *)
(***************************************************************************)

T_context      == << "c", "o", "n", "t", "e", "x", "t" >>

\* executeAnalyticsQuery and buildContextualQuery: placeholders.
executeAnalyticsQuery == JObj(<< M(<< "p", "l", "a", "c", "e", "h", "o", "l", "d", "e", "r" >>,
           JStr(<< "A", "n", "a", "l", "y", "t", "i", "c", "s", " ", "r", "e", "s", "u", "l", "t", "s", " ", "w", "o", "u", "l", "d", " ", "b", "e", " ", "h", "e", "r", "e" >>)) >>)

buildContextualQuery == JObj(<< M(<< "p", "l", "a", "c", "e", "h", "o", "l", "d", "e", "r" >>,
           JStr(<< "C", "o", "n", "t", "e", "x", "t", "u", "a", "l", " ", "d", "a", "t", "a", " ", "w", "o", "u", "l", "d", " ", "b", "e", " ", "h", "e", "r", "e" >>)) >>)

\* A DataRelationship.
Relationship(fromEntity, fromId, toEntity, toId, type) ==
  [from |-> [entity |-> fromEntity, id |-> fromId],
   to |-> [entity |-> toEntity, id |-> toId], type |-> type]

NoRelationship == Relationship(NoRepository, NoId, NoRepository, NoId, "none")

\* Line 666: the key of a relationship; it does not start with the prefix.
relationshipKey(r) ==
  << "r", "e", "l", "a", "t", "i", "o", "n", "s", "h", "i", "p", ":" >> \o r.from.entity \o << ":" >> \o r.from.id
    \o << ":" >> \o r.to.entity \o << ":" >> \o r.to.id

\* An analytics cache that lives as long as a query's.
AnalyticsTTL_Standard == DefaultTTL

\* The TTLs of lines 649, 667 and 695.
AnalyticsTTL == 7200
RelationshipTTL == 86400
ContextTTL      == 1800

\* Line 724: pattern || prefix + '*'; no pattern is << >>.
searchPattern(pattern) == IF pattern = << >> THEN prefix \o << "*" >> ELSE pattern

\* getPerformanceMetrics, lines 709-717: the counters and cacheHitRatio, the
\* quotient written as a fraction num / den (den = 1 for the constant 0).
getPerformanceMetrics(m) ==
  [queryCount |-> m.queryCount, cacheHits |-> m.cacheHits,
   cacheMisses |-> m.cacheMisses, totalQueries |-> m.totalQueries,
   cacheHitRatio |-> IF m.totalQueries > 0
                     THEN [num |-> m.cacheHits * 100, den |-> m.totalQueries]
                     ELSE [num |-> 0, den |-> 1]]

NoMetrics == getPerformanceMetrics([queryCount |-> 0, cacheHits |-> 0,
                                    cacheMisses |-> 0, totalQueries |-> 0])

\* The arguments the callers pass.
A_CountByCase  == JObj(<< M(F_metrics, JArr(<< JStr(W_count) >>)),
                          M(F_dimensions, JArr(<< JStr(Case) >>)) >>)
A_ByDimension  == JObj(<< M(F_dimensions, JArr(<< JStr(Client) >>)),
                          M(F_metrics, JArr(<< JStr(W_count) >>)) >>)
HubAnalytics   == { A_CountByCase, A_ByDimension }

HubRelationships == { Relationship(Client, IdOrder[1], Case, IdOrder[1], "one-to-many") }

HubContexts ==
  LET F_userId == << "u", "s", "e", "r", "I", "d" >>
      F_module == << "m", "o", "d", "u", "l", "e" >>
      F_action == << "a", "c", "t", "i", "o", "n" >>
  IN
  { JObj(<< M(F_userId, JStr(<< "u", "1" >>)), M(F_module, JStr(<< "c", "l", "i", "e", "n", "t", "-", "p", "o", "r", "t", "a", "l" >>)),
            M(F_action, JStr(<< "d", "a", "s", "h", "b", "o", "a", "r", "d" >>)) >>) }

ClearPatterns == { << >>, prefix \o << "q", "u", "e", "r", "y", ":", "*" >> }

\* A call of one of these operations.  before is the set of keys in the cache
\* when the call started; given the pattern clearCache was called with; keys
\* the result of redis.keys.
\* What a call remembers of the call that ended before it started.
NoPrevOp == [op |-> "none", q |-> NoQuery, clean |-> FALSE, expires |-> 0,
             result |-> NoQuery]

IdleOp ==
  [op |-> "none", pc |-> "idle", q |-> NoQuery, rel |-> NoRelationship,
   given |-> NoKey, pattern |-> NoKey, key |-> NoKey, keys |-> { }, before |-> { },
   result |-> NoQuery, perf |-> NoMetrics, hit |-> FALSE,
   outcome |-> "none", err |-> "none", fault |-> { },
   executed |-> 0, gotAt |-> 0, expires |-> 0, prev |-> NoPrevOp]

\* Map.set, redis.setex
MapSet(map, key, value) ==
  [k \in DOMAIN map \cup { key } |-> IF k = key THEN value ELSE map[k]]

\* The call of an operation starts.
StartOp(c) ==
  /\ hcall.pc \in { "idle", "done" }
  /\ hcall' = [c EXCEPT !.before = DOMAIN cache,
                        !.prev = [op |-> hcall.op, q |-> hcall.q,
                                  clean |-> hcall.pc = "done" /\ hcall.fault = { },
                                  expires |-> hcall.expires, result |-> hcall.result]]

CallerOp(c) ==
  /\ calls < MaxCalls
  /\ calls' = calls + 1
  /\ StartOp(c)
  /\ UNCHANGED << store, ver, acked, cache, metrics, qcall, mcall, issued, faults,
                  now, keyVars, provVars >>

\* Lines 635-639: analytics(query) derives its key and awaits getFromCache.
StartAnalytics(q) ==
  StartOp([IdleOp EXCEPT !.op = "analytics", !.pc = "get", !.q = q,
                         !.key = generateCacheKey(T_analytics, q)])

AnalyticsIssue(q) ==
  CallerOp([IdleOp EXCEPT !.op = "analytics", !.pc = "get", !.q = q,
                          !.key = generateCacheKey(T_analytics, q)])

\* Lines 663-666: createRelationship(relationship) awaits setCache.
RelationshipIssue(r) ==
  CallerOp([IdleOp EXCEPT !.op = "createRelationship", !.pc = "set", !.rel = r,
                          !.key = relationshipKey(r)])

\* Lines 682-694: getContextualData(context) builds the data (a placeholder)
\* and awaits setCache.
ContextualIssue(context) ==
  CallerOp([IdleOp EXCEPT !.op = "getContextualData", !.pc = "set", !.q = context,
                          !.key = generateCacheKey(T_context, context),
                          !.result = buildContextualQuery])

\* Lines 722-725: clearCache(pattern?) awaits redis.keys.
ClearIssue(pattern) ==
  CallerOp([IdleOp EXCEPT !.op = "clearCache", !.pc = "keys", !.given = pattern,
                          !.pattern = searchPattern(pattern)])

\* getPerformanceMetrics(): synchronous.
MetricsRead ==
  CallerOp([IdleOp EXCEPT !.op = "getPerformanceMetrics", !.pc = "done",
                          !.outcome = "ok", !.perf = getPerformanceMetrics(metrics)])

\* getFromCache (757-765) in analytics, lines 639-646: a failed read is a
\* miss; on a miss the results are computed.
OpCacheGet ==
  /\ hcall.pc = "get"
  /\ \E f \in FaultChoice :
       LET found == ~f /\ hcall.key \in DOMAIN cache
       IN  /\ Inject(f)
           /\ hcall' =
                IF found
                THEN [hcall EXCEPT !.pc = "done", !.outcome = "ok", !.hit = TRUE,
                                   !.result = cache[hcall.key].data, !.gotAt = now,
                                   !.expires = cache[hcall.key].at + cache[hcall.key].ttl]
                ELSE [hcall EXCEPT !.pc = "set", !.result = executeAnalyticsQuery,
                                   !.executed = @ + 1, !.gotAt = now,
                                   !.fault = IF f THEN @ \cup { "cache" } ELSE @]
  /\ UNCHANGED << store, ver, acked, cache, metrics, qcall, mcall, issued, calls,
                  now, keyVars, provVars >>

\* What setCache is called with at lines 649, 667 and 695.
OpEntry(c, at) ==
  CASE c.op = "analytics" ->
         [data |-> c.result, ttl |-> AnalyticsTTL, src |-> NoRepository, srcVer |-> 0,
          at |-> at, given |-> << >>]
    [] c.op = "createRelationship" ->
         [data |-> c.rel, ttl |-> RelationshipTTL, src |-> NoRepository, srcVer |-> 0,
          at |-> at, given |-> << >>]
    [] OTHER ->
         [data |-> c.result, ttl |-> ContextTTL, src |-> NoRepository, srcVer |-> 0,
          at |-> at, given |-> << >>]

\* setCache (767-773), a failed write being swallowed, and the code after
\* it: analytics and getContextualData return; createRelationship emits
\* 'data.relationship.created' (g: a listener throws) and returns.
OpCacheSet ==
  /\ hcall.pc = "set"
  /\ \E f \in FaultChoice, g \in FaultChoice :
       /\ Inject(f \/ g)
       /\ ~(f /\ g)
       /\ g => hcall.op = "createRelationship"
       /\ cache' = IF f THEN cache ELSE MapSet(cache, hcall.key, OpEntry(hcall, now))
       /\ hcall' = [hcall EXCEPT !.pc = "done",
                                 !.expires = IF f THEN @ ELSE now + OpEntry(hcall, now).ttl,
                                 !.outcome = IF g THEN "error" ELSE "ok",
                                 !.err = IF g THEN "ListenerError" ELSE "none",
                                 !.fault = @ \cup (IF f THEN { "cache" } ELSE { })
                                             \cup (IF g THEN { "emit" } ELSE { })]
  /\ UNCHANGED << store, ver, acked, metrics, qcall, mcall, issued, calls,
                  now, keyVars, provVars >>

\* Lines 725-727: redis.keys(searchPattern); a failure is logged (731-733).
ClearKeys ==
  /\ hcall.pc = "keys"
  /\ \E f \in FaultChoice :
       LET keys == RedisKeys(hcall.pattern)
       IN  /\ Inject(f)
           /\ hcall' =
                IF f THEN [hcall EXCEPT !.pc = "done", !.outcome = "ok",
                                        !.fault = @ \cup { "cache" }]
                ELSE IF keys = { } THEN [hcall EXCEPT !.pc = "done", !.outcome = "ok"]
                ELSE [hcall EXCEPT !.pc = "del", !.keys = keys]
  /\ UNCHANGED << store, ver, acked, cache, metrics, qcall, mcall, issued, calls,
                  now, keyVars, provVars >>

\* Lines 728-733: redis.del(...keys); a failure is logged.
ClearDel ==
  /\ hcall.pc = "del"
  /\ \E f \in FaultChoice :
       /\ Inject(f)
       /\ cache' = IF f THEN cache ELSE [k \in DOMAIN cache \ hcall.keys |-> cache[k]]
       /\ hcall' = [hcall EXCEPT !.pc = "done", !.outcome = "ok",
                                 !.fault = IF f THEN @ \cup { "cache" } ELSE @]
  /\ UNCHANGED << store, ver, acked, metrics, qcall, mcall, issued, calls,
                  now, keyVars, provVars >>

HubOpSteps == OpCacheGet \/ OpCacheSet \/ ClearKeys \/ ClearDel

HubOps ==
  \/ \E q \in HubAnalytics : AnalyticsIssue(q)
  \/ \E r \in HubRelationships : RelationshipIssue(r)
  \/ \E c \in HubContexts : ContextualIssue(c)
  \/ \E p \in ClearPatterns : ClearIssue(p)
  \/ MetricsRead
  \/ HubOpSteps


(***************************************************************************)
(* DataContextProviderService                                              *)
(***************************************************************************)

LegalQuery       == << "L", "e", "g", "a", "l", "Q", "u", "e", "r", "y" >>
ResearchTask     == << "R", "e", "s", "e", "a", "r", "c", "h", "T", "a", "s", "k" >>
DocumentVersion  == << "D", "o", "c", "u", "m", "e", "n", "t", "V", "e", "r", "s", "i", "o", "n" >>
Comment          == << "C", "o", "m", "m", "e", "n", "t" >>

M_clientPortal   == << "c", "l", "i", "e", "n", "t", "-", "p", "o", "r", "t", "a", "l" >>
M_aiAssistant    == << "a", "i", "-", "a", "s", "s", "i", "s", "t", "a", "n", "t" >>
M_documentManagement ==
  << "d", "o", "c", "u", "m", "e", "n", "t", "-", "m", "a", "n", "a", "g", "e", "m", "e", "n", "t" >>
M_legalResearch  == << "l", "e", "g", "a", "l", "-", "r", "e", "s", "e", "a", "r", "c", "h" >>
M_workflowAutomation ==
  << "w", "o", "r", "k", "f", "l", "o", "w", "-", "a", "u", "t", "o", "m", "a", "t", "i", "o", "n" >>
M_integrationManagement ==
  << "i", "n", "t", "e", "g", "r", "a", "t", "i", "o", "n", "-", "m", "a", "n", "a", "g", "e", "m", "e", "n", "t" >>
M_entityManagement ==
  << "e", "n", "t", "i", "t", "y", "-", "m", "a", "n", "a", "g", "e", "m", "e", "n", "t" >>
\* A module name nothing is registered under.
M_billing        == << "b", "i", "l", "l", "i", "n", "g" >>

Requirements(primary, secondary, relations, permissions, cacheStrategy, realTimeSync) ==
  [primary |-> primary, secondary |-> secondary, relations |-> relations,
   permissions |-> permissions, cacheStrategy |-> cacheStrategy,
   realTimeSync |-> realTimeSync]

\* The registry the constructor fills: module name -> ModuleDataRequirements.
initializeModuleRequirements ==
  LET CaseLaw == << "C", "a", "s", "e", "L", "a", "w" >>
      Statute == << "S", "t", "a", "t", "u", "t", "e" >>
      Citation == << "C", "i", "t", "a", "t", "i", "o", "n" >>
      LegalDatabase == << "L", "e", "g", "a", "l", "D", "a", "t", "a", "b", "a", "s", "e" >>
      Workflow == << "W", "o", "r", "k", "f", "l", "o", "w" >>
      Task == << "T", "a", "s", "k" >>
      WorkflowStep == << "W", "o", "r", "k", "f", "l", "o", "w", "S", "t", "e", "p" >>
      Automation == << "A", "u", "t", "o", "m", "a", "t", "i", "o", "n" >>
      Integration == << "I", "n", "t", "e", "g", "r", "a", "t", "i", "o", "n" >>
      ApiKey == << "A", "p", "i", "K", "e", "y" >>
      Webhook == << "W", "e", "b", "h", "o", "o", "k" >>
      IntegrationLog == << "I", "n", "t", "e", "g", "r", "a", "t", "i", "o", "n", "L", "o", "g" >>
      SyncStatus == << "S", "y", "n", "c", "S", "t", "a", "t", "u", "s" >>
      Entity == << "E", "n", "t", "i", "t", "y" >>
      CorporateEvent == << "C", "o", "r", "p", "o", "r", "a", "t", "e", "E", "v", "e", "n", "t" >>
      ComplianceRecord == << "C", "o", "m", "p", "l", "i", "a", "n", "c", "e", "R", "e", "c", "o", "r", "d" >>
      Filing == << "F", "i", "l", "i", "n", "g" >>
      EntityRelation == << "E", "n", "t", "i", "t", "y", "R", "e", "l", "a", "t", "i", "o", "n" >>
  IN
  M_clientPortal :> Requirements(
      << Client, Case, Document >>, << Message, Payment, Notification >>,
      << "client.cases", "case.documents", "client.payments" >>,
      << "client.read", "case.read", "document.read" >>, "aggressive", TRUE)
  @@ M_aiAssistant :> Requirements(
      << Case, Document, Client >>, << LegalQuery, ResearchTask >>,
      << "case.client", "document.case" >>,
      << "ai.query", "document.analyze" >>, "moderate", FALSE)
  @@ M_documentManagement :> Requirements(
      << Document, Case, Client >>, << DocumentVersion, Comment >>,
      << "document.case", "document.versions", "case.client" >>,
      << "document.read", "document.write" >>, "moderate", TRUE)
  @@ M_legalResearch :> Requirements(
      << ResearchTask, CaseLaw, Statute >>, << Citation, LegalDatabase >>,
      << "research.citations", "task.assignee" >>,
      << "research.read", "research.create" >>, "aggressive", FALSE)
  @@ M_workflowAutomation :> Requirements(
      << Workflow, Task, Case >>, << WorkflowStep, Automation >>,
      << "workflow.tasks", "task.case" >>,
      << "workflow.read", "workflow.execute" >>, "minimal", TRUE)
  @@ M_integrationManagement :> Requirements(
      << Integration, ApiKey, Webhook >>, << IntegrationLog, SyncStatus >>,
      << "integration.logs", "apikey.usage" >>,
      << "integration.read", "api.manage" >>, "moderate", TRUE)
  @@ M_entityManagement :> Requirements(
      << Entity, CorporateEvent, ComplianceRecord >>, << Filing, EntityRelation >>,
      << "entity.events", "entity.compliance" >>,
      << "entity.read", "entity.manage" >>, "moderate", TRUE)

NoRequirements == Requirements(<< >>, << >>, << >>, << >>, "none", FALSE)

\* A registry whose lookup falls back to the client portal's requirements.
moduleRequirements_Fallback(module) ==
  IF module \in DOMAIN initializeModuleRequirements
  THEN initializeModuleRequirements[module] ELSE initializeModuleRequirements[M_clientPortal]

\* this.moduleRequirements.get(module)
moduleRequirements(module) ==
  IF module \in DOMAIN initializeModuleRequirements
  THEN initializeModuleRequirements[module] ELSE NoRequirements

Range(s) == { s[i] : i \in 1..Len(s) }

\* validateUserPermissions: the body is a comment; it returns, without
\* throwing, for every context and every requirements.
validateUserPermissions(context, requirements) == TRUE

F_createdAt == << "c", "r", "e", "a", "t", "e", "d", "A", "t" >>
W_DESC      == << "D", "E", "S", "C" >>

\* The defaults getUserPreferences hands out and caches.
defaultPreferences ==
  [defaultPageSize |-> 25,
   preferredOrderBy |-> JObj(<< M(F_createdAt, JStr(W_DESC)) >>),
   hiddenFields |-> << >>, favoriteFilters |-> JObj(<< >>),
   autoRefresh |-> TRUE, realTimeNotifications |-> TRUE]

PreferencesKey(userId) ==
  << "p", "r", "e", "f", "e", "r", "e", "n", "c", "e", "s", ":" >> \o userId

\* Preferences that are resolved anew, with a smaller page, once stored.
getUserPreferences_Refreshed(ucache, userId) ==
  IF PreferencesKey(userId) \in DOMAIN ucache
  THEN [ucache[PreferencesKey(userId)] EXCEPT !.defaultPageSize = 10]
  ELSE defaultPreferences

\* getUserPreferences: the cached preferences, else the defaults.
getUserPreferences(ucache, userId) ==
  IF PreferencesKey(userId) \in DOMAIN ucache
  THEN ucache[PreferencesKey(userId)] ELSE defaultPreferences

Min(a, b) == IF a < b THEN a ELSE b

\* The DataQuery getPrimaryData builds for one entity; filters is written
\* only when the context carries one.
PrimaryQuery(entity, context, requirements, preferences) ==
  JObj(<< M(F_entity, JStr(entity)) >> \o Opt(F_filters, context.filters)
       \o << M(F_limit, JNum(preferences.defaultPageSize)),
             M(F_orderBy, preferences.preferredOrderBy),
             M(F_cache, JBool(requirements.cacheStrategy # "minimal")) >>)

\* A secondary query without the cap of 10.
SecondaryQuery_Uncapped(entity, context, preferences) ==
  JObj(<< M(F_entity, JStr(entity)) >> \o Opt(F_filters, context.filters)
       \o << M(F_limit, JNum(preferences.defaultPageSize)),
             M(F_cache, JBool(TRUE)) >>)

\* The DataQuery getSecondaryData builds for one entity.
SecondaryQuery(entity, context, preferences) ==
  JObj(<< M(F_entity, JStr(entity)) >> \o Opt(F_filters, context.filters)
       \o << M(F_limit, JNum(Min(preferences.defaultPageSize, 10))),
             M(F_cache, JBool(TRUE)) >>)

\* Metadata whose hasMore says only that something was found.
buildMetadata_NonEmpty(ucache, context, primaryData, requirements) ==
  [totalCount |-> Len(primaryData),
   hasMore |-> Len(primaryData) > 0,
   cached |-> requirements.cacheStrategy # "minimal",
   permissions |-> requirements.permissions,
   suggestedActions |-> << "view", "edit", "delete", "share" >>]

\* buildMetadata, without the expiry instant.
buildMetadata(ucache, context, primaryData, requirements) ==
  [totalCount |-> Len(primaryData),
   hasMore |-> Len(primaryData) = getUserPreferences(ucache, context.userId).defaultPageSize,
   cached |-> requirements.cacheStrategy # "minimal",
   permissions |-> requirements.permissions,
   suggestedActions |-> << "view", "edit", "delete", "share" >>]

\* One context entry for each user, whatever the module.
ContextKey_PerUser(userId, module) ==
  << "c", "o", "n", "t", "e", "x", "t", ":" >> \o userId

ContextKey(userId, module) ==
  << "c", "o", "n", "t", "e", "x", "t", ":" >> \o userId \o << ":" >> \o module

\* { ...old, ...new }: the fields of new, and those of old that new lacks.
Spread(old, new) ==
  [f \in DOMAIN old \cup DOMAIN new |-> IF f \in DOMAIN new THEN new[f] ELSE old[f]]

\* updateUserContext: the entry of the user and module, spread under the
\* new fields and lastUpdated; date is the value of new Date().
updateUserContext(ucache, userId, module, contextData, date) ==
  LET key == ContextKey(userId, module)
      old == IF key \in DOMAIN ucache THEN ucache[key] ELSE << >>
  IN  MapSet(ucache, key, Spread(Spread(old, contextData), [lastUpdated |-> date]))

U_1 == << "u", "1" >>
W_dashboard == << "d", "a", "s", "h", "b", "o", "a", "r", "d" >>

\* A DataContext; granted is the set of permissions the user of the context
\* holds, filters is << >> when the context carries none.
Context(userId, module, filters, granted) ==
  [userId |-> userId, userRole |-> "client", module |-> module,
   action |-> W_dashboard, filters |-> filters, granted |-> granted]

NoContext == Context(<< >>, << >>, << >>, { })
NoMetadata == [totalCount |-> 0, hasMore |-> FALSE, cached |-> FALSE,
               permissions |-> << >>, suggestedActions |-> << >>]

\* The contexts the provider is called with: the client portal, without a
\* filter for a user who holds one of its permissions only and with a filter
\* for a user who holds them all; a module of the 'minimal' strategy whose
\* entities the hub has no repository for; and a module the registry does
\* not hold.
ProviderContexts ==
  LET all == { "client.read", "case.read", "document.read", "workflow.read",
               "workflow.execute" }
      byStatus == << JObj(<< M(F_status, JStr(StatusB)) >>) >>
  IN  { Context(U_1, M_clientPortal, << >>, { "client.read" }),
        Context(U_1, M_clientPortal, byStatus, all),
        Context(U_1, M_workflowAutomation, byStatus, all),
        Context(U_1, M_billing, << >>, all) }

\* The mutations updateModuleData is called with.
ModuleUpdates ==
  { [entity |-> Case, operation |-> "create", data |-> [id |-> NoId, status |-> StatusA]],
    [entity |-> Client, operation |-> "update", data |-> [id |-> IdOrder[1], status |-> StatusA]],
    [entity |-> Client, operation |-> "update", data |-> [id |-> IdOrder[2], status |-> StatusA]],
    [entity |-> Client, operation |-> "delete", data |-> [id |-> IdOrder[1], status |-> StatusB]] }

\* How many times getModuleData is called in one behaviour.
MaxRequests == 2

IdleProvider ==
  [op |-> "none", pc |-> "idle", context |-> NoContext, requirements |-> NoRequirements,
   preferences |-> defaultPreferences, idx |-> 0, slot |-> "none", waiting |-> FALSE,
   primary |-> << >>, secondary |-> << >>, metadata |-> NoMetadata,
   hubCalls |-> 0, outcome |-> "none", err |-> "none",
   log |-> << >>, queries |-> << >>, failedAt |-> 0, ucache0 |-> << >>,
   analyticsQuery |-> NoQuery, analytics |-> NoQuery,
   entity |-> << >>, operation |-> "none", data |-> [id |-> NoId, status |-> << >>],
   result |-> [rows |-> { }, affected |-> 0], events |-> << >>, notifyFailed |-> FALSE,
   options |-> << >>, found |-> << >>, results |-> << >>, totalFound |-> 0]

\* The record of the steps a call has taken, in the order it took them.
Step(c, s) == [c EXCEPT !.log = Append(@, s)]

\* The loops of getPrimaryData and getSecondaryData: where the call stands
\* once c.idx has moved past the entities of a list.
Advance(c) ==
  LET toSecondary == c.pc = "primary" /\ c.idx > Len(c.requirements.primary)
      d == IF toSecondary THEN [c EXCEPT !.pc = "secondary", !.idx = 1] ELSE c
  IN  IF d.pc = "secondary" /\ d.idx > Len(d.requirements.secondary)
      THEN [d EXCEPT !.pc = "finish"] ELSE d

\* A catch block that logs and goes on with the next entity.
Rethrow_Swallowed(c, err) == Advance([c EXCEPT !.idx = @ + 1])

\* A catch block that logs and goes on to the context update.
Rethrow_ToContext(c, err) == [c EXCEPT !.pc = "context", !.err = err]

\* Lines 134-137: the catch block logs and rethrows.
Rethrow(c, err) == [c EXCEPT !.pc = "done", !.outcome = "error", !.err = err]

\* Lines 112-124 once both loops are over: related data (a placeholder),
\* metadata, the call of prefetchPredictiveData (not awaited), and the await
\* of getFrequentActions inside the argument of updateUserContext.
Settle(c, ucache) ==
  IF c.pc # "finish" THEN c
  ELSE Step(Step(Step([c EXCEPT !.pc = "context",
                                !.metadata = buildMetadata(ucache, c.context, c.primary,
                                                           c.requirements)],
                           "related"), "metadata"), "prefetch")

\* Line 118: prefetchPredictiveData runs up to its first await (line 265).
Triggered(c, p) == IF c.pc = "context" THEN [p EXCEPT !.pending = @ + 1] ELSE p

\* Lines 92-106: the registry lookup, validateUserPermissions,
\* getUserPreferences, and the code up to the first hub query.
GetModuleDataCall(context) ==
  /\ pcall.pc \in { "idle", "done" }
  /\ requests < MaxRequests
  /\ requests' = requests + 1
  /\ LET requirements == moduleRequirements(context.module)
         preferences == getUserPreferences(userContextCache, context.userId)
         ucache == MapSet(userContextCache, PreferencesKey(context.userId), preferences)
         c == [IdleProvider EXCEPT !.op = "getModuleData", !.context = context,
                                   !.requirements = requirements,
                                   !.ucache0 = userContextCache]
         checked == Step(c, "permissions")
         resolved == Step([checked EXCEPT !.preferences = preferences], "preferences")
     IN  IF requirements = NoRequirements
         THEN /\ pcall' = Rethrow(c, "ModuleNotRegistered")
              /\ UNCHANGED << userContextCache, prefetch >>
         ELSE IF ~validateUserPermissions(context, requirements)
         THEN /\ pcall' = Rethrow(checked, "PermissionDenied")
              /\ UNCHANGED << userContextCache, prefetch >>
         ELSE /\ pcall' = Settle(Advance([resolved EXCEPT !.pc = "primary", !.idx = 1]),
                                 ucache)
              /\ userContextCache' = ucache
              /\ prefetch' = Triggered(pcall', prefetch)
  /\ UNCHANGED << hubVars, now, keyVars >>

\* Lines 388-394 and 410-415: the next dataHub.query of a loop is called.
GetModuleDataQuery(i) ==
  /\ pcall.pc \in { "primary", "secondary" }
  /\ ~pcall.waiting
  /\ LET c == pcall
         q == IF c.pc = "primary"
              THEN PrimaryQuery(c.requirements.primary[c.idx], c.context,
                                c.requirements, c.preferences)
              ELSE SecondaryQuery(c.requirements.secondary[c.idx], c.context,
                                  c.preferences)
     IN  /\ StartQuery(i, q)
         /\ pcall' = Step([pcall EXCEPT !.waiting = TRUE, !.slot = i, !.hubCalls = @ + 1,
                                        !.queries = Append(@, q)], c.pc)
  /\ UNCHANGED << store, ver, acked, cache, mcall, hcall, calls, faults, now, keyVars,
                  userContextCache, requests, prefetch >>

\* Lines 396 and 417: the hub query has ended; its rows are pushed, or its
\* error leaves getModuleData through the catch block.
GetModuleDataCollect ==
  /\ pcall.op = "getModuleData"
  /\ pcall.waiting
  /\ qcall[pcall.slot].pc = "done"
  /\ LET r == qcall[pcall.slot]
         c == [pcall EXCEPT !.waiting = FALSE, !.idx = @ + 1,
                            !.primary = IF pcall.pc = "primary" THEN @ \o r.rows ELSE @,
                            !.secondary = IF pcall.pc = "secondary" THEN @ \o r.rows ELSE @]
     IN  IF r.outcome = "error"
         THEN /\ pcall' = Rethrow([pcall EXCEPT !.waiting = FALSE,
                                                !.failedAt = pcall.hubCalls], r.err)
              /\ UNCHANGED prefetch
         ELSE /\ pcall' = Settle(Advance(c), userContextCache)
              /\ prefetch' = Triggered(pcall', prefetch)
  /\ UNCHANGED << hubVars, now, keyVars, userContextCache, requests >>

\* Lines 121-132: updateUserContext, then the response is returned.
GetModuleDataReturn ==
  /\ pcall.pc = "context"
  /\ userContextCache' =
       updateUserContext(userContextCache, pcall.context.userId, pcall.context.module,
         [lastAccess |-> requests, preferences |-> pcall.preferences,
          frequentActions |-> << "view", "create", "search", "edit" >>], requests)
  /\ pcall' = Step(Step([pcall EXCEPT !.pc = "done", !.outcome = "ok"], "context"),
                   "return")
  /\ UNCHANGED << hubVars, now, keyVars, requests, prefetch >>

GetModuleData ==
  \/ \E context \in ProviderContexts : GetModuleDataCall(context)
  \/ \E i \in QSlots : GetModuleDataQuery(i)
  \/ GetModuleDataCollect
  \/ GetModuleDataReturn

\* A prefetch whose failure reaches the request that started it.
PrefetchOutcome_Surfaced(c, failure) ==
  IF failure = "none" THEN c ELSE Rethrow(c, "PrefetchFailed")

\* What a step of prefetchPredictiveData does to the request that started
\* it: line 118 drops the promise and lines 275-277 log what was caught.
PrefetchOutcome(c, failure) == c

\* Lines 265-277, after the await of getUserBehaviorPatterns: a failure of
\* the lookup or of predictNextActions is caught and logged as a warning;
\* the promises of prefetchActionData (line 272) are not awaited, so a
\* rejection of one of them is handled by nobody.
PrefetchResume ==
  /\ prefetch.pending > 0
  /\ \E failure \in { "none", "patterns", "predict", "action" } :
       /\ (failure # "none") \in FaultChoice
       /\ Inject(failure # "none")
       /\ prefetch' = [prefetch EXCEPT
                         !.pending = @ - 1,
                         !.warned = @ \/ failure \in { "patterns", "predict" },
                         !.unhandled = @ \/ failure = "action"]
       /\ pcall' = PrefetchOutcome(pcall, failure)
  /\ UNCHANGED << store, ver, acked, cache, metrics, qcall, mcall, issued, calls, hcall,
                  now, keyVars, userContextCache, requests >>

\* Lines 517-529: the analytics query of a module.
buildModuleAnalyticsQuery(context, requirements) ==
  JObj(<< M(<< "m", "e", "t", "r", "i", "c", "s" >>,
            JArr(<< JStr(<< "c", "o", "u", "n", "t" >>), JStr(<< "a", "v", "g" >>),
                    JStr(<< "t", "r", "e", "n", "d" >>) >>)),
          M(<< "d", "i", "m", "e", "n", "s", "i", "o", "n", "s" >>,
            JArr([i \in 1..Len(requirements.primary) |-> JStr(requirements.primary[i])])) >>)

\* Lines 226-238: getModuleAnalytics looks the module up, builds the query
\* and awaits dataHub.analytics.
GetModuleAnalyticsCall(context) ==
  /\ pcall.pc \in { "idle", "done" }
  /\ requests < MaxRequests
  /\ requests' = requests + 1
  /\ LET requirements == moduleRequirements(context.module)
         c == [IdleProvider EXCEPT !.op = "getModuleAnalytics", !.context = context,
                                   !.requirements = requirements,
                                   !.ucache0 = userContextCache]
         q == buildModuleAnalyticsQuery(context, requirements)
     IN  IF requirements = NoRequirements
         THEN /\ pcall' = Rethrow(c, "ModuleNotRegistered")
              /\ UNCHANGED hcall
         ELSE /\ StartAnalytics(q)
              /\ pcall' = [c EXCEPT !.pc = "analytics", !.waiting = TRUE,
                                    !.hubCalls = 1, !.analyticsQuery = q]
  /\ UNCHANGED << store, ver, acked, cache, metrics, qcall, mcall, issued, calls, faults,
                  now, keyVars, userContextCache, prefetch >>

\* Lines 238-250: the analytics have arrived; insights (a placeholder) are
\* generated and the response is returned.  Lines 252-255 rethrow.
GetModuleAnalyticsCollect ==
  /\ pcall.op = "getModuleAnalytics"
  /\ pcall.waiting
  /\ hcall.pc = "done"
  /\ pcall' = IF hcall.outcome = "error"
              THEN Rethrow([pcall EXCEPT !.waiting = FALSE], hcall.err)
              ELSE [pcall EXCEPT !.waiting = FALSE, !.pc = "done", !.outcome = "ok",
                                 !.analytics = hcall.result]
  /\ UNCHANGED << hubVars, now, keyVars, userContextCache, requests, prefetch >>

GetModuleAnalytics ==
  \/ \E context \in ProviderContexts : GetModuleAnalyticsCall(context)
  \/ GetModuleAnalyticsCollect

\* validateMutationPermissions, lines 456-463: the body is a comment; it
\* returns, without throwing, for every context, entity and operation.
validateMutationPermissions(context, entity, operation) == TRUE

\* A mutation handed to the hub without the audit trail.
UpdateMutation_NoAudit(entity, operation, data) ==
  [entity |-> entity, operation |-> operation, id |-> data.id, status |-> data.status,
   validateRelations |-> TRUE, auditTrail |-> FALSE]

\* Lines 155-163: the DataMutation updateModuleData hands to dataHub.mutate.
UpdateMutation(entity, operation, data) ==
  [entity |-> entity, operation |-> operation, id |-> data.id, status |-> data.status,
   validateRelations |-> TRUE, auditTrail |-> TRUE]

\* Lines 472-478: the payload of 'data.cross-module.update', without the
\* timestamp.
CrossModuleUpdate(context, entity, operation, result) ==
  [name |-> "data.cross-module.update", sourceModule |-> context.module,
   entity |-> entity, operation |-> operation, result |-> result]

\* Lines 150-163: validateMutationPermissions, then dataHub.mutate is called.
UpdateModuleDataCall(context, entity, operation, data) ==
  /\ pcall.pc \in { "idle", "done" }
  /\ requests < MaxRequests
  /\ requests' = requests + 1
  /\ LET c == Step([IdleProvider EXCEPT !.op = "updateModuleData", !.context = context,
                                        !.entity = entity, !.operation = operation,
                                        !.data = data, !.ucache0 = userContextCache],
                   "permissions")
     IN  IF ~validateMutationPermissions(context, entity, operation)
         THEN /\ pcall' = Rethrow(c, "PermissionDenied")
              /\ UNCHANGED mcall
         ELSE /\ StartMutate(UpdateMutation(entity, operation, data))
              /\ pcall' = Step([c EXCEPT !.pc = "mutate", !.waiting = TRUE,
                                         !.hubCalls = 1], "mutate")
  /\ UNCHANGED << store, ver, acked, cache, metrics, qcall, issued, calls, faults, hcall,
                  now, keyVars, userContextCache, prefetch >>

\* Lines 166-176: the mutation has ended.  Its error goes through the catch
\* block; its result goes to notifyRelatedModules, whose emit is synchronous
\* and unguarded (a listener that throws makes it throw into the same catch
\* block), then to updatePredictiveModels (a placeholder), and is returned.
UpdateModuleDataCollect ==
  /\ pcall.op = "updateModuleData"
  /\ pcall.waiting
  /\ mcall.pc = "done"
  /\ \E f \in FaultChoice :
       LET c == [pcall EXCEPT !.waiting = FALSE]
           result == mutateResult(mcall)
           notified == Step([c EXCEPT !.result = result], "notify")
       IN  /\ f => mcall.outcome = "ok"
           /\ Inject(f)
           /\ pcall' =
                IF mcall.outcome = "error" THEN Rethrow(c, mcall.err)
                ELSE IF f THEN Rethrow([notified EXCEPT !.notifyFailed = TRUE],
                                       "ListenerError")
                ELSE Step(Step([notified EXCEPT
                                  !.pc = "done", !.outcome = "ok",
                                  !.events = Append(@, CrossModuleUpdate(c.context, c.entity,
                                                                         c.operation, result))],
                               "predict"), "return")
  /\ UNCHANGED << store, ver, acked, cache, metrics, qcall, mcall, issued, calls, hcall,
                  now, keyVars, userContextCache, requests, prefetch >>

UpdateModuleData ==
  \/ \E context \in ProviderContexts, u \in ModuleUpdates :
       UpdateModuleDataCall(context, u.entity, u.operation, u.data)
  \/ UpdateModuleDataCollect

\* The steps of the hub mutation the provider has started.
HubMutateSteps ==
  \/ MutateConnect
  \/ MutateBegin
  \/ MutateOp
  \/ MutateCommit
  \/ MutateInvalidate
  \/ MutateEmit
  \/ MutateRollback
  \/ MutateRelease

(***************************************************************************)
(* searchAcrossModules: lines 183-220.  searchEntity (497-505) is a        *)
(* placeholder for the search of one entity; what it finds is given here   *)
(* by found, entity -> the hits, the placeholder's answer (no hits for any *)
(* entity) being one of the cases.                                         *)
(***************************************************************************)

\* Lines 491-494: the primary and the secondary entities of the module, or
\* none when the registry does not hold the module.
getAllAvailableEntities(context) ==
  LET requirements == moduleRequirements(context.module)
  IN  IF requirements = NoRequirements THEN << >>
      ELSE requirements.primary \o requirements.secondary

searchEntity(found, entity) == IF entity \in DOMAIN found THEN found[entity] ELSE << >>

\* Map.set on a Map kept in insertion order: a known key keeps its place.
MapPut(map, key, value) ==
  IF \E i \in 1..Len(map) : map[i].key = key
  THEN [i \in 1..Len(map) |-> IF map[i].key = key THEN [key |-> key, value |-> value]
                              ELSE map[i]]
  ELSE Append(map, [key |-> key, value |-> value])

\* Lines 200-205: the loop over the entities; only an entity with hits is
\* set in the Map.
RECURSIVE searchEach(_, _, _)
searchEach(entities, found, searchResults) ==
  IF entities = << >> THEN searchResults
  ELSE LET results == searchEntity(found, Head(entities))
       IN  searchEach(Tail(entities), found,
             IF Len(results) > 0 THEN MapPut(searchResults, Head(entities), results)
             ELSE searchResults)

\* Lines 507-515.
organizeSearchResults(searchResults) ==
  [i \in 1..Len(searchResults) |->
     [entity |-> searchResults[i].key, results |-> searchResults[i].value,
      count |-> Len(searchResults[i].value)]]

\* Array.prototype.flat().length: the lengths of the lists added up.
RECURSIVE FlatLength(_)
FlatLength(lists) ==
  IF lists = << >> THEN 0 ELSE Len(Head(lists)) + FlatLength(Tail(lists))

\* A total that counts the groups.
totalFound_Groups(searchResults) == Len(searchResults)

\* Line 213: Array.from(searchResults.values()).flat().length
totalFound(searchResults) ==
  FlatLength([i \in 1..Len(searchResults) |-> searchResults[i].value])

\* The options.entities searchAcrossModules is called with (none, an empty
\* list, a list, a list that names an entity twice) and what the searches
\* of the entities find.
SearchOptions ==
  { << >>, << << >> >>, << << Case >> >>, << << Document, Case, Document >> >> }

SearchFinds ==
  [{ Client, Case, Document } -> { << >>, << IdOrder[1] >>, << IdOrder[1], IdOrder[2] >> }]

\* Lines 194-216.
SearchAcrossModules(context, options, found) ==
  /\ pcall.pc \in { "idle", "done" }
  /\ requests < MaxRequests
  /\ requests' = requests + 1
  /\ LET entities == IF options # << >> THEN options[1]
                     ELSE getAllAvailableEntities(context)
         searchResults == searchEach(entities, found, << >>)
     IN  pcall' = [IdleProvider EXCEPT
                     !.op = "searchAcrossModules", !.pc = "done", !.outcome = "ok",
                     !.context = context, !.options = options, !.found = found,
                     !.ucache0 = userContextCache,
                     !.results = organizeSearchResults(searchResults),
                     !.totalFound = totalFound(searchResults)]
  /\ UNCHANGED << hubVars, now, keyVars, userContextCache, prefetch >>

SearchNext ==
  \E context \in ProviderContexts, options \in SearchOptions, found \in SearchFinds :
    SearchAcrossModules(context, options, found)

\* The steps of the hub queries the provider has started.
HubQuerySteps == \E i \in QSlots : QueryCacheGet(i) \/ QueryRead(i) \/ QueryCacheSet(i)

ProviderIdle ==
  /\ pcall = IdleProvider
  /\ userContextCache = << >>
  /\ requests = 0
  /\ prefetch = [pending |-> 0, warned |-> FALSE, unhandled |-> FALSE]

\* The hub after construction, over a database that holds one client and
\* the given number of documents.
HubStart(documents) ==
  /\ store = [e \in registerRepositories |->
               IF e = Client THEN { Row(Client, IdOrder[1], StatusB) }
               ELSE IF e = Document
               THEN { Row(Document, DocumentIds(documents)[i], StatusB) : i \in 1..documents }
               ELSE { }]
  /\ ver = [e \in registerRepositories |-> 0]
  /\ acked = [e \in registerRepositories |-> 0]
  /\ cache = << >>
  /\ metrics = [queryCount |-> 0, cacheHits |-> 0, cacheMisses |-> 0, totalQueries |-> 0]
  /\ qcall = [i \in QSlots |-> IdleQuery]
  /\ mcall = IdleMutate
  /\ issued = { }
  /\ calls = 0
  /\ faults = 0
  /\ hcall = IdleOp
  /\ now = 0

HubInit == HubStart(0)

Init == HubInit /\ KeyIdle /\ ProviderIdle

\* The provider over a database whose documents, together with what the
\* other primary entities of client-portal return, fill a page.
PortalDocuments == defaultPreferences.defaultPageSize - 2

ProviderInit == HubStart(PortalDocuments) /\ KeyIdle /\ ProviderIdle

Next == Query \/ Mutate

\* The hub with its callers: queries and mutations interleaved.
Spec == Init /\ [][Next]_vars

\* The key derivation applied to every pair of requests.
KeyStart == HubInit /\ KeyInit /\ ProviderIdle

KeySpec == KeyStart /\ [][KeyCompute]_vars

ProviderNext ==
  \/ GetModuleData
  \/ PrefetchResume
  \/ GetModuleAnalytics
  \/ HubQuerySteps
  \/ OpCacheGet
  \/ OpCacheSet

\* Redis's clock advances by half the default TTL, and Redis drops the
\* entries whose time to live (the ttl of setex, line 769) has run out.
TickLen == DefaultTTL \div 2

MaxTicks == 5

Tick ==
  /\ now < MaxTicks * TickLen
  /\ now' = now + TickLen
  /\ cache' = [k \in { j \in DOMAIN cache : now' < cache[j].at + cache[j].ttl } |->
                cache[k]]
  /\ UNCHANGED << store, ver, acked, metrics, qcall, mcall, issued, calls, faults, hcall,
                  keyVars, provVars >>

\* Queries that differ in the cacheTTL they carry.
Q_CaseShort == JObj(<< M(F_entity, JStr(Case)), M(F_cacheTTL, JNum(TickLen)) >>)
Q_CaseZero  == JObj(<< M(F_entity, JStr(Case)), M(F_cacheTTL, JNum(0)) >>)

TtlQueries == { Q_CaseList, Q_CaseShort, Q_CaseZero }

TtlNext ==
  \/ \E i \in QSlots : \E q \in TtlQueries : QueryIssue(i, q)
  \/ HubQuerySteps
  \/ Tick

\* The hub's queries while Redis's clock runs.
TtlSpec == Init /\ [][TtlNext]_vars

AnalyticsNext ==
  \/ \E q \in HubAnalytics : AnalyticsIssue(q)
  \/ OpCacheGet
  \/ OpCacheSet
  \/ Tick

\* The hub's analytics while Redis's clock runs.
AnalyticsSpec == Init /\ [][AnalyticsNext]_vars

\* A query on an entity the hub has no repository for.
Q_CaseLawList ==
  JObj(<< M(F_entity, JStr(<< "C", "a", "s", "e", "L", "a", "w" >>)) >>)

CacheQueries == { Q_CaseList, Q_ClientList, Q_CaseLawList }

CacheNext ==
  \/ \E i \in QSlots : \E q \in CacheQueries : QueryIssue(i, q)
  \/ HubQuerySteps
  \/ HubOps

\* The hub with the callers of its queries and of its cache, analytics,
\* relationship and metrics operations.
CacheSpec == Init /\ [][CacheNext]_vars

MetricsNext ==
  \/ \E i \in QSlots : QueryIssue(i, Q_CaseList)
  \/ HubQuerySteps
  \/ MutateIssue(Mutation(Case, "create", NoId, StatusA))
  \/ HubMutateSteps
  \/ HubOps

\* The hub with the callers of all its operations.
MetricsSpec == Init /\ [][MetricsNext]_vars

(***************************************************************************)
(* The module data adapters                                                *)
(***************************************************************************)

\* getUserRole of the three adapters: placeholders that return a constant.
getUserRole(moduleName) == IF moduleName = M_clientPortal THEN "client" ELSE "attorney"

\* A ModuleDataRequest; filters and options.useCache are << >> when absent.
ModuleDataRequest(action, filters, useCache) ==
  [action |-> action, filters |-> filters, useCache |-> useCache]

\* BaseModuleDataAdapter.getModuleData, lines 60-67: the context handed to
\* the provider.  request.options is not read; the context carries no
\* permissions.
AdapterContext(moduleName, userId, request) ==
  [Context(IF userId # << >> THEN userId ELSE << "s", "y", "s", "t", "e", "m" >>,
           moduleName, request.filters, { })
     EXCEPT !.userRole = getUserRole(moduleName), !.action = request.action]

W_analyzeDocument ==
  << "a", "n", "a", "l", "y", "z", "e", "_", "d", "o", "c", "u", "m", "e", "n", "t" >>

\* getClientDashboard, getDocumentContext and getDocumentTree: the adapter,
\* the user and the request each of them passes to getModuleData.
AdapterCalls ==
  { [adapter |-> M_clientPortal, userId |-> U_1,
     request |-> ModuleDataRequest(W_dashboard, << >>, << TRUE >>)],
    [adapter |-> M_aiAssistant, userId |-> U_1,
     request |-> ModuleDataRequest(W_analyzeDocument, << >>, << FALSE >>)],
    [adapter |-> M_documentManagement, userId |-> U_1,
     request |-> ModuleDataRequest(<< "v", "i", "e", "w", "_", "t", "r", "e", "e" >>,
                                   << >>, << TRUE >>)] }

\* The items of a list whose constructor.name is the given class name.
OfClass(items, name) == SelectSeq(items, LAMBDA item : item.kind = name)

\* ClientPortalDataAdapter.transformDataForModule
ClientPortal_transformDataForModule(data) ==
  [clients |-> OfClass(data.primary, Client),
   cases |-> OfClass(data.primary, Case),
   documents |-> OfClass(data.primary, Document),
   messages |-> OfClass(data.secondary, Message),
   payments |-> OfClass(data.secondary, Payment),
   notifications |-> OfClass(data.secondary, Notification),
   metadata |-> data.metadata]

\* DocumentManagementDataAdapter.transformDataForModule, without the
\* placeholder folders.
DocumentManagement_transformDataForModule(data) ==
  [documents |-> OfClass(data.primary, Document),
   cases |-> OfClass(data.primary, Case),
   clients |-> OfClass(data.primary, Client),
   versions |-> OfClass(data.secondary, DocumentVersion),
   comments |-> OfClass(data.secondary, Comment),
   metadata |-> data.metadata]

\* Lines 69-72: what the adapter returns, in the step in which the provider
\* returns its response c, for the two adapters whose module can answer.
AdapterResponse(c) ==
  LET data == [primary |-> c.primary, secondary |-> c.secondary, metadata |-> c.metadata]
  IN  IF c.context.module = M_clientPortal
      THEN ClientPortal_transformDataForModule(data)
      ELSE DocumentManagement_transformDataForModule(data)

\* Lines 55-69: an adapter method calls getModuleData of its base class,
\* which builds the context and awaits the provider.
AdapterGetModuleData(call) ==
  GetModuleDataCall(AdapterContext(call.adapter, call.userId, call.request))

AdapterNext ==
  \/ \E call \in AdapterCalls : AdapterGetModuleData(call)
  \/ \E i \in QSlots : GetModuleDataQuery(i)
  \/ GetModuleDataCollect
  \/ GetModuleDataReturn
  \/ HubQuerySteps

\* The three adapters over the provider and the hub.
AdapterSpec == Init /\ [][AdapterNext]_vars

\* Two users of the client portal, and one of them in a second module.
MergeContexts ==
  LET all == { "client.read", "case.read", "document.read", "document.write" }
  IN  { Context(U_1, M_clientPortal, << >>, all),
        Context(<< "u", "2" >>, M_clientPortal, << >>, all),
        Context(U_1, M_documentManagement, << >>, all) }

ContextNext ==
  \/ \E context \in MergeContexts : GetModuleDataCall(context)
  \/ \E i \in QSlots : GetModuleDataQuery(i)
  \/ GetModuleDataCollect
  \/ GetModuleDataReturn
  \/ HubQuerySteps

\* getModuleData for several users and modules, and the userContextCache.
ContextSpec == Init /\ [][ContextNext]_vars

\* The context provider's searchAcrossModules.
SearchSpec == Init /\ [][SearchNext]_vars

\* The context provider's updateModuleData and the hub mutations it makes.
UpdateNext == UpdateModuleData \/ HubMutateSteps

UpdateSpec == Init /\ [][UpdateNext]_vars

\* The context provider on top of the hub: getModuleData and the hub queries
\* it makes.
ProviderSpec == ProviderInit /\ [][ProviderNext]_vars

(***************************************************************************)
(* Properties                                                              *)
(***************************************************************************)

Pos(log, step) == CHOOSE i \in 1..Len(log) : log[i] = step
In(log, step) == \E i \in 1..Len(log) : log[i] = step

\* C1: once a mutate on an entity has returned normally, a query on that
\* entity that starts afterwards is not answered from rows cached before the
\* mutation changed the table.
C1_NoStaleReadAfterMutation ==
  \A i \in QSlots :
    (qcall[i].pc = "done" /\ qcall[i].hit /\ qcall[i].src = QEntity(qcall[i].q))
      => qcall[i].srcVer >= qcall[i].minVer

\* C2: when the invalidation of a mutation on entity E completes, the cache
\* holds no key that generateCacheKey derives for a query on E.
C2_InvalidationLeavesNoEntityKey ==
  [][(mcall.pc = "invalidate" /\ mcall'.pc = After("invalidate"))
       => \A q \in HubQueries :
            QEntity(q) = mcall.m.entity => generateCacheKey(T_query, q) \notin DOMAIN cache']_vars

\* C3: a mutate that raises leaves the table as it found it and raises the
\* original error (the rollback and the release themselves not failing); a
\* mutate that returns leaves all its writes in the table.
C3_MutateAllOrNothing ==
  mcall.pc = "done" =>
    /\ mcall.outcome = "error" =>
         /\ store[mcall.m.entity] = mcall.store0
         /\ ~mcall.cleanupFailed => mcall.err = mcall.err0
    /\ mcall.outcome = "ok" =>
         store[mcall.m.entity] = ApplyOperation(mcall.store0, mcall.m)

\* C4: in a mutate, invalidation and event emission never come before the
\* commit, and a mutate that returns has committed, then invalidated, then
\* emitted, then returned.
C4_CommitInvalidateEmitReturn ==
  LET log == mcall.log
  IN  /\ In(log, "invalidate") => (In(log, "commit") /\ Pos(log, "commit") < Pos(log, "invalidate"))
      /\ In(log, "emit") => (In(log, "commit") /\ Pos(log, "commit") < Pos(log, "emit"))
      /\ (mcall.pc = "done" /\ mcall.outcome = "ok") =>
           /\ In(log, "commit") /\ In(log, "invalidate") /\ In(log, "emit")
           /\ Pos(log, "commit") < Pos(log, "invalidate")
           /\ Pos(log, "invalidate") < Pos(log, "emit")
           /\ Pos(log, "emit") < Pos(log, "return")
           /\ log[Len(log)] = "return"

C4_Returned ==
  mcall.pc = "done" /\ mcall.outcome = "ok" /\ mcall.m.operation = "create"

\* C5: two requests of one kind that differ in a field get different keys.
C5_DifferentRequestsDifferentKeys ==
  (kout.pc = "computed" /\ ~SameShape(kin.a, kin.b)) => kout.ka # kout.kb

\* C6: two requests of one kind with the same fields and values get the
\* same key, in whatever order their fields were written.
C6_SameRequestSameKey ==
  (kout.pc = "computed" /\ SameShape(kin.a, kin.b)) => kout.ka = kout.kb

\* No mutation was issued and no failure injected since the hub started.
Undisturbed == mcall.pc = "idle" /\ faults = 0

\* C7: with nothing but queries going on, the first call of a shape (caching
\* enabled) makes exactly one storage read, and a call of the shape of the
\* call before it makes none, returns the same records and adds one to
\* cacheHits.
C7_SecondCallFromCache ==
  \A i \in QSlots :
    LET c == qcall[i]
    IN  (c.pc = "done" /\ Undisturbed /\ CacheEnabled(c.q)
         /\ getRepository(QEntity(c.q)) # NoRepository) =>
          /\ c.first => c.reads = 1
          /\ (c.prev.ok /\ c.prev.q = c.q) =>
               /\ c.reads = 0
               /\ ToJson(c.rows) = c.prev.json
               /\ metrics.cacheHits = c.hits0 + 1

\* C8: a call into which only cache failures were injected ends as it would
\* on a miss or a delete of nothing: normally.
C8_CacheFailureNotFatal ==
  /\ (mcall.pc = "done" /\ mcall.fault = { "cache" }
      /\ mcall.m.operation \in SupportedOperations) => mcall.outcome = "ok"
  /\ \A i \in QSlots :
       (qcall[i].pc = "done" /\ qcall[i].fault = { "cache" }
        /\ getRepository(QEntity(qcall[i].q)) # NoRepository) => qcall[i].outcome = "ok"

\* C9: a getModuleData whose user lacks a permission the module requires
\* makes no hub query and ends with PermissionDenied.
C9_PermissionDeniedBeforeAnyQuery ==
  (pcall.pc # "idle" /\ pcall.requirements # NoRequirements
   /\ ~(Range(pcall.requirements.permissions) \subseteq pcall.context.granted)) =>
    /\ pcall.hubCalls = 0
    /\ pcall.pc = "done" => (pcall.outcome = "error" /\ pcall.err = "PermissionDenied")

\* C10: a mutate with an operation outside create, update, delete, upsert
\* never commits, leaves the table alone, invalidates nothing, emits nothing,
\* and ends with UnsupportedOperation (with an error of the database when a
\* failure of the database was injected into it).
C10_UnsupportedOperationNeverCommits ==
  (mcall.pc # "idle" /\ mcall.m.operation \notin { "create", "update", "delete", "upsert" }) =>
    /\ store[mcall.m.entity] = mcall.store0
    /\ mcall.tx # "committed"
    /\ ~In(mcall.log, "commit") /\ ~In(mcall.log, "invalidate") /\ ~In(mcall.log, "emit")
    /\ mcall.pc = "done" =>
         /\ mcall.outcome = "error"
         /\ mcall.fault = { } => mcall.err = "UnsupportedOperation"

C10_ArchiveRefused ==
  /\ mcall.pc = "done" /\ mcall.m.operation = "archive"
  /\ mcall.err = "UnsupportedOperation" /\ mcall.released

\* C11: a query on an entity without a repository ends with
\* EntityNotRegistered and returns no records, whatever the cache holds.
C11_UnregisteredEntityFails ==
  \A i \in QSlots :
    (qcall[i].pc = "done" /\ getRepository(QEntity(qcall[i].q)) = NoRepository) =>
      /\ qcall[i].outcome = "error"
      /\ qcall[i].err = "EntityNotRegistered"
      /\ qcall[i].rows = << >>

\* C17: the cacheHitRatio that getPerformanceMetrics returns is
\* cacheHits / totalQueries, and 0 when totalQueries is 0.
C17_HitRatioIsHitsOverTotal ==
  (hcall.op = "getPerformanceMetrics" /\ hcall.pc = "done") =>
    LET p == hcall.perf
    IN  IF p.totalQueries = 0 THEN p.cacheHitRatio.num = 0
        ELSE p.cacheHitRatio.num * p.totalQueries = p.cacheHits * p.cacheHitRatio.den

\* C20: when a clearCache into which no failure was injected completes, of
\* the entries that were in the cache when it was called none is left if it
\* was called without a pattern, and exactly those matching the pattern are
\* gone if it was called with one.
C20_ClearCacheRemovesHubEntries ==
  [][(hcall.op = "clearCache" /\ hcall.pc # "done" /\ hcall'.pc = "done"
      /\ hcall'.fault = { }) =>
       \A k \in hcall.before :
         IF hcall.given = << >> THEN k \notin DOMAIN cache'
         ELSE (k \in DOMAIN cache' <=> ~GlobMatch(hcall.given, k))]_vars

\* The steps of getModuleData in the order of lines 100-132.
StepOrder ==
  << "permissions", "preferences", "primary", "secondary", "related", "metadata",
     "prefetch", "context", "return" >>

Rank(s) == CHOOSE i \in 1..Len(StepOrder) : StepOrder[i] = s

\* C12: a getModuleData or getModuleAnalytics for a module that is not in
\* the registry has ended with ModuleNotRegistered without a permission
\* check, a preference lookup or a hub call, and the userContextCache is what
\* it was when the call was made.
C12_UnregisteredModuleFailsFirst ==
  (pcall.op \in { "getModuleData", "getModuleAnalytics" }
   /\ pcall.context.module \notin DOMAIN initializeModuleRequirements) =>
    /\ pcall.pc = "done"
    /\ pcall.outcome = "error"
    /\ pcall.err = "ModuleNotRegistered"
    /\ pcall.log = << >>
    /\ pcall.hubCalls = 0
    /\ pcall.queries = << >>
    /\ userContextCache = pcall.ucache0

\* An unregistered module asked for its analytics after a getModuleData had
\* filled the userContextCache.
C12_UnknownModuleRefused ==
  /\ pcall.op = "getModuleAnalytics"
  /\ pcall.pc = "done"
  /\ pcall.context.module = M_billing
  /\ pcall.err = "ModuleNotRegistered"
  /\ userContextCache # << >>

\* C13: the steps of a getModuleData are taken in the order permission
\* check, preference resolution, primary fetches, secondary fetches, related
\* resolution, metadata, prefetch trigger, context update, return; a call that
\* returns a response has taken all of them; and once a hub query of the call
\* has failed the call has ended with that failure, has issued no further
\* query, has taken none of the later steps and has left the context entry
\* of the userContextCache as it was.
C13_StepsInOrderAndAbortOnFailure ==
  pcall.op = "getModuleData" =>
    LET log == pcall.log
        key == ContextKey(pcall.context.userId, pcall.context.module)
    IN  /\ \A i, j \in 1..Len(log) :
             i < j => /\ Rank(log[i]) <= Rank(log[j])
                      /\ Rank(log[i]) = Rank(log[j]) => log[i] \in { "primary", "secondary" }
        /\ (pcall.pc = "done" /\ pcall.outcome = "ok") =>
             \A k \in 1..Len(StepOrder) : \E i \in 1..Len(log) : log[i] = StepOrder[k]
        /\ pcall.failedAt > 0 =>
             /\ pcall.pc = "done"
             /\ pcall.outcome = "error"
             /\ pcall.err = qcall[pcall.slot].err
             /\ Len(pcall.queries) = pcall.failedAt
             /\ \A i \in 1..Len(log) : Rank(log[i]) <= Rank("secondary")
             /\ (key \in DOMAIN userContextCache) = (key \in DOMAIN pcall.ucache0)
             /\ key \in DOMAIN pcall.ucache0 => userContextCache[key] = pcall.ucache0[key]

\* A getModuleData that was ended by the failure of its second or a later
\* hub query.
C13_AbortedAfterFirstQuery ==
  /\ pcall.op = "getModuleData"
  /\ pcall.failedAt >= 2
  /\ pcall.pc = "done"

C18_OneQueryPerEntity ==
  (pcall.op = "getModuleData"
   /\ pcall.context.module \in DOMAIN initializeModuleRequirements) =>
    LET c == pcall
        requirements == initializeModuleRequirements[c.context.module]
        n == Len(requirements.primary)
        m == Len(requirements.secondary)
        pageSize == c.preferences.defaultPageSize
    IN  /\ Len(c.queries) <= n + m
        /\ (c.pc = "done" /\ c.outcome = "ok") => Len(c.queries) = n + m
        /\ \A i \in 1..Len(c.queries) :
             LET q == c.queries[i]
             IN  /\ QEntity(q) = IF i <= n THEN requirements.primary[i]
                                 ELSE requirements.secondary[i - n]
                 /\ IF c.context.filters = << >> THEN ~HasField(q, F_filters)
                    ELSE HasField(q, F_filters) /\ Field(q, F_filters) = c.context.filters[1]
                 /\ Field(q, F_limit) =
                      JNum(IF i <= n \/ pageSize < 10 THEN pageSize ELSE 10)
                 /\ i <= n =>
                      /\ Field(q, F_orderBy) = c.preferences.preferredOrderBy
                      /\ Field(q, F_cache) = JBool(requirements.cacheStrategy # "minimal")

\* A getModuleData with filters that has returned after its six queries.
C18_AllEntitiesQueried ==
  /\ pcall.op = "getModuleData"
  /\ pcall.pc = "done"
  /\ pcall.outcome = "ok"
  /\ Len(pcall.queries) = 6
  /\ pcall.context.filters # << >>

\* C19: in the response of a getModuleData, metadata.totalCount is the
\* number of primary records and metadata.hasMore is true exactly when that
\* number is the user's page size.
C19_MetadataCountsPrimary ==
  (pcall.op = "getModuleData" /\ pcall.pc = "done" /\ pcall.outcome = "ok") =>
    /\ pcall.metadata.totalCount = Len(pcall.primary)
    /\ pcall.metadata.hasMore <=> Len(pcall.primary) = pcall.preferences.defaultPageSize

\* A response whose primary records fill a page exactly.
C19_FullPage ==
  /\ pcall.op = "getModuleData"
  /\ pcall.pc = "done"
  /\ pcall.outcome = "ok"
  /\ pcall.metadata.hasMore
  /\ Len(pcall.primary) = pcall.preferences.defaultPageSize

\* C15: a mutation that committed and whose only failure was a listener of
\* 'data.mutated' throwing has returned its result without an error; and an
\* updateModuleData whose mutation succeeded and whose only failure was the
\* publication of 'data.cross-module.update' has returned the mutation's
\* result without an error.
C15_NotificationFailureNotFatal ==
  /\ (mcall.pc = "done" /\ mcall.tx = "committed" /\ mcall.fault = { "emit" }) =>
       mcall.outcome = "ok"
  /\ (pcall.op = "updateModuleData" /\ pcall.pc = "done" /\ pcall.notifyFailed) =>
       (pcall.outcome = "ok" /\ pcall.err = "none")

\* The steps of updateModuleData in the order of lines 152-171.
UpdateOrder == << "permissions", "mutate", "notify", "predict", "return" >>

\* C16: an updateModuleData takes its steps in the order permission
\* validation, hub mutate, cross-module event, predictive update, return; the
\* mutation it hands to the hub is the caller's entity, operation and data
\* with validateRelations and auditTrail set; a call that returns has
\* emitted exactly one 'data.cross-module.update' carrying the module, the
\* entity, the operation and the hub's result, and returns that result; and
\* when the hub mutate has failed no event was emitted and the hub's error is
\* the caller's.
C16_UpdateOrderAndEvent ==
  pcall.op = "updateModuleData" =>
    LET c == pcall
    IN  /\ Len(c.log) <= Len(UpdateOrder)
        /\ \A i \in 1..Len(c.log) : c.log[i] = UpdateOrder[i]
        /\ Len(c.events) <= 1
        /\ mcall.m = [entity |-> c.entity, operation |-> c.operation, id |-> c.data.id,
                      status |-> c.data.status, validateRelations |-> TRUE,
                      auditTrail |-> TRUE]
        /\ (c.pc = "done" /\ c.outcome = "ok") =>
             /\ c.log = UpdateOrder
             /\ mcall.outcome = "ok"
             /\ c.result = mutateResult(mcall)
             /\ c.events = << [name |-> "data.cross-module.update",
                               sourceModule |-> c.context.module, entity |-> c.entity,
                               operation |-> c.operation, result |-> c.result] >>
        /\ (~c.waiting /\ mcall.pc = "done" /\ mcall.outcome = "error") =>
             /\ c.pc = "done"
             /\ c.outcome = "error"
             /\ c.err = mcall.err
             /\ c.events = << >>
             /\ c.log = << "permissions", "mutate" >>

\* An updateModuleData that returned the row it created, after an earlier
\* one had been ended by the failure of its hub mutate.
C16_UpdateReturned ==
  /\ pcall.op = "updateModuleData"
  /\ pcall.pc = "done"
  /\ pcall.outcome = "ok"
  /\ pcall.operation = "create"
  /\ pcall.result.rows # { }
  /\ Len(pcall.events) = 1
  /\ faults > 0

\* C21: an analytics call that follows a call with the same query, no cache
\* failure having been injected into either and the entry the first call
\* left not having run out when the second reads the cache, returns what the
\* first returned without executing the analytics query; and every analytics
\* entry is written with twice the default TTL of queries.
C21_AnalyticsCacheFirst ==
  /\ (hcall.op = "analytics" /\ hcall.pc = "done" /\ hcall.fault = { }
      /\ hcall.prev.op = "analytics" /\ hcall.prev.q = hcall.q /\ hcall.prev.clean
      /\ hcall.gotAt < hcall.prev.expires) =>
       /\ hcall.hit
       /\ hcall.executed = 0
       /\ hcall.result = hcall.prev.result
  /\ \A k \in DOMAIN cache :
       GlobMatch(prefix \o T_analytics \o << ":", "*" >>, k) =>
         cache[k].ttl = 2 * DefaultTTL

\* A second analytics call with the same query, made after the clock had
\* advanced, was answered from the cache.
C21_SecondCallFromCache ==
  /\ hcall.op = "analytics"
  /\ hcall.pc = "done"
  /\ hcall.prev.op = "analytics"
  /\ hcall.prev.q = hcall.q
  /\ hcall.hit
  /\ hcall.gotAt > 0

\* C22: the cache entry a query is served was written no longer ago than
\* the TTL of the query that wrote it: the cacheTTL that query was called
\* with, or 3600 s when it was called with none.
C22_ServedWithinTTL ==
  \A i \in QSlots :
    (qcall[i].pc = "done" /\ qcall[i].hit) =>
      qcall[i].age <= IF qcall[i].given = << >> THEN 3600 ELSE qcall[i].given[1]

RECURSIVE SumOfCounts(_)
SumOfCounts(groups) ==
  IF groups = << >> THEN 0 ELSE Head(groups).count + SumOfCounts(Tail(groups))

\* C23: a searchAcrossModules has searched the entities of options.entities
\* when it was given, else the primary and secondary entities of the
\* context's module; its result holds exactly one group for each searched
\* entity that has hits and none for the others; a group holds the hits of
\* its entity and their number as count; and metadata.totalFound is the sum
\* of the counts.
C23_SearchGroupsAndTotal ==
  (pcall.op = "searchAcrossModules" /\ pcall.pc = "done") =>
    LET c == pcall
        module == c.context.module
        searched ==
          IF c.options # << >> THEN Range(c.options[1])
          ELSE IF module \in DOMAIN initializeModuleRequirements
          THEN Range(initializeModuleRequirements[module].primary)
                 \cup Range(initializeModuleRequirements[module].secondary)
          ELSE { }
        hits(e) == IF e \in DOMAIN c.found THEN c.found[e] ELSE << >>
        groups == c.results
    IN  /\ c.outcome = "ok"
        /\ { groups[i].entity : i \in 1..Len(groups) } = { e \in searched : hits(e) # << >> }
        /\ \A i, j \in 1..Len(groups) : groups[i].entity = groups[j].entity => i = j
        /\ \A i \in 1..Len(groups) :
             /\ groups[i].results = hits(groups[i].entity)
             /\ groups[i].count = Len(groups[i].results)
        /\ c.totalFound = SumOfCounts(groups)

\* A search of the module's own entities that found two groups, one of
\* them with two hits, and left an entity without hits out.
C23_TwoGroupsFound ==
  /\ pcall.op = "searchAcrossModules"
  /\ pcall.pc = "done"
  /\ pcall.options = << >>
  /\ Len(pcall.results) = 2
  /\ pcall.totalFound = 3

\* C24: no step of a query, a mutation, an analytics call, a clearCache or
\* any other hub operation lowers queryCount, cacheHits, cacheMisses or
\* totalQueries, and getPerformanceMetrics leaves all four as they are.
C24_CountersNeverDecrease ==
  [][/\ metrics'.queryCount >= metrics.queryCount
     /\ metrics'.cacheHits >= metrics.cacheHits
     /\ metrics'.cacheMisses >= metrics.cacheMisses
     /\ metrics'.totalQueries >= metrics.totalQueries
     /\ (hcall'.op = "getPerformanceMetrics" /\ hcall' # hcall) => metrics' = metrics]_vars

\* getPerformanceMetrics read counters that queries had raised, after a
\* mutation had committed.
C24_CountersRead ==
  /\ hcall.op = "getPerformanceMetrics"
  /\ hcall.pc = "done"
  /\ hcall.perf.totalQueries > 0
  /\ hcall.perf.cacheMisses > 0
  /\ mcall.tx = "committed"

\* The key of a user's preferences in the userContextCache.
IsPreferencesKey(k) ==
  Len(k) > 12 /\ SubSeq(k, 1, 12) = << "p", "r", "e", "f", "e", "r", "e", "n", "c", "e", "s", ":" >>

\* C25: the userContextCache is empty until a getModuleData resolves
\* preferences; a getModuleData that has resolved them has left, under its
\* user, the default preferences (page size 25, order createdAt DESC) and
\* works with exactly those; and no step removes a stored preference entry
\* or changes it.
C25_PreferencesLazyAndKept ==
  /\ [](/\ requests = 0 => userContextCache = << >>
        /\ (pcall.op = "getModuleData" /\ pcall.log # << >> /\ pcall.err # "PermissionDenied") =>
             LET k == << "p", "r", "e", "f", "e", "r", "e", "n", "c", "e", "s", ":" >>
                        \o pcall.context.userId
             IN  /\ k \in DOMAIN userContextCache
                 /\ userContextCache[k] = pcall.preferences
                 /\ pcall.preferences.defaultPageSize = 25
                 /\ pcall.preferences.preferredOrderBy
                      = JObj(<< M(F_createdAt, JStr(<< "D", "E", "S", "C" >>)) >>))
  /\ [][\A k \in DOMAIN userContextCache :
          IsPreferencesKey(k) =>
            (k \in DOMAIN userContextCache' /\ userContextCache'[k] = userContextCache[k])]_vars

\* A second getModuleData of a user has answered, with the preferences
\* the first one stored.
C25_StoredPreferencesReused ==
  /\ pcall.op = "getModuleData"
  /\ pcall.pc = "done"
  /\ pcall.outcome = "ok"
  /\ pcall.context.userId = U_1
  /\ << "p", "r", "e", "f", "e", "r", "e", "n", "c", "e", "s", ":", "u", "1" >> \in DOMAIN pcall.ucache0
  /\ requests = 2

\* The key under which the context of a user in a module is kept.
ContextEntryKey(userId, module) ==
  << "c", "o", "n", "t", "e", "x", "t", ":" >> \o userId \o << ":" >> \o module

IsContextKey(k) ==
  Len(k) > 8 /\ SubSeq(k, 1, 8) = << "c", "o", "n", "t", "e", "x", "t", ":" >>

C28_EffectsOnlyAfterCommit ==
  LET log == mcall.log
  IN  /\ (In(log, "invalidate") \/ In(log, "emit")) => mcall.tx = "committed"
      /\ mcall.tx # "committed" => (mcall.keys = { } /\ mcall.pend # "ok")
      /\ mcall.tx = "rolledback" =>
           (In(log, "rollback") /\ ~In(log, "commit") /\ ~In(log, "invalidate") /\ ~In(log, "emit"))

\* A mutate whose commit failed has rolled its transaction back and ended.
C28_RolledBack ==
  /\ mcall.pc = "done"
  /\ mcall.tx = "rolledback"
  /\ mcall.outcome = "error"
  /\ mcall.table # mcall.store0

\* C29: the step by which a query on an entity writes its result into the
\* cache never writes rows read from storage before the commit of a mutation
\* on that entity that has since committed its change and invalidated.
C29_NoStaleWriteAfterInvalidation ==
  [][\A i \in QSlots :
       (/\ qcall[i].pc = "set"
        /\ qcall'[i].pc = "done"
        /\ qcall[i].key \in DOMAIN cache'
        /\ cache'[qcall[i].key].data = ToJson(qcall[i].rows)
        /\ cache'[qcall[i].key].srcVer = qcall[i].srcVer)
       => ~(/\ mcall.m.entity = qcall[i].src
            /\ mcall.tx = "committed"
            /\ mcall.table # mcall.store0
            /\ In(mcall.log, "invalidate")
            /\ qcall[i].srcVer < ver[qcall[i].src])]_vars

\* C30: rollbackTransaction is never invoked in a mutate that has committed
\* its transaction, and a mutate that began a transaction and has ended has
\* invoked exactly one of commitTransaction (with success) and
\* rollbackTransaction.
C30_CommitOrRollbackOnce ==
  LET log == mcall.log
  IN  /\ ~(In(log, "commit") /\ In(log, "rollback"))
      /\ (mcall.pc = "done" /\ In(log, "begin")) => (In(log, "commit") \/ In(log, "rollback"))

\* C31: a mutate that has connected its query runner and has returned or
\* thrown has called release on it exactly once, and no mutate calls release
\* more than once.
C31_RunnerReleasedOnce ==
  /\ mcall.releases <= 1
  /\ (mcall.pc = "done" /\ mcall.connected) => mcall.releases = 1

\* The two inequalities of the hub counters, and the counting of a query
\* answered from the cache: one hit, and nothing in totalQueries.
CounterBounds ==
  /\ metrics.cacheHits + metrics.cacheMisses <= metrics.queryCount
  /\ metrics.cacheHits + metrics.totalQueries <= metrics.queryCount
  /\ \A i \in QSlots :
       (qcall[i].pc = "done" /\ qcall[i].hit) =>
         /\ metrics.cacheHits = qcall[i].hits0 + 1
         /\ metrics.totalQueries = qcall[i].total0

\* C32 as stated: the counter bounds hold, and a query that has failed has
\* changed none of cacheHits, cacheMisses and totalQueries.
C32_FailedQueryInQueryCountOnly ==
  /\ CounterBounds
  /\ \A i \in QSlots :
       (qcall[i].pc = "done" /\ qcall[i].outcome = "error") =>
         /\ metrics.cacheHits = qcall[i].hits0
         /\ metrics.cacheMisses = qcall[i].misses0
         /\ metrics.totalQueries = qcall[i].total0

\* C32, amended: the counter bounds hold, and a query that has failed is
\* not counted as a hit, is counted as a miss exactly when its caching was
\* enabled, and is counted in totalQueries exactly when it failed in the
\* emission of 'data.accessed', after updateQueryMetrics.
C32_CounterBounds ==
  /\ CounterBounds
  /\ \A i \in QSlots :
       (qcall[i].pc = "done" /\ qcall[i].outcome = "error") =>
         /\ metrics.cacheHits = qcall[i].hits0
         /\ metrics.cacheMisses =
              qcall[i].misses0 + IF qcall[i].q = Q_CaseNoCache THEN 0 ELSE 1
         /\ metrics.totalQueries =
              qcall[i].total0 + IF qcall[i].err = "ListenerError" THEN 1 ELSE 0

\* A query has failed in the storage read after a cache miss, and an earlier
\* query was counted.
C32_FailedAfterMiss ==
  \E i \in QSlots :
    /\ qcall[i].pc = "done"
    /\ qcall[i].err = "StorageError"
    /\ metrics.cacheMisses = qcall[i].misses0 + 1
    /\ metrics.queryCount = 2

\* C33: the cacheHitRatio that getPerformanceMetrics reports on the current
\* counters is not negative and, read as a percentage, not above 100.
C33_HitRatioIsProportion ==
  LET ratio == getPerformanceMetrics(metrics).cacheHitRatio
  IN  /\ 0 <= ratio.num
      /\ ratio.num <= 100 * ratio.den

\* C34: the first getModuleData of a behaviour (the cache was empty when it
\* was called), for a module of the registry and a user who holds the
\* permissions of the module, into which no failure was injected, has
\* completed with a response: every entity it queried had a repository.
C34_RegisteredModulesAnswer ==
  (/\ pcall.op = "getModuleData"
   /\ pcall.pc = "done"
   /\ requests = 1
   /\ faults = 0
   /\ pcall.context.module \in DOMAIN initializeModuleRequirements
   /\ Range(moduleRequirements(pcall.context.module).permissions)
        \subseteq pcall.context.granted)
  => pcall.outcome = "ok"

StorageGroup(c, e) ==
  getMany(store[e],
          IF e \in Range(c.requirements.primary)
          THEN PrimaryQuery(e, c.context, c.requirements, c.preferences)
          ELSE SecondaryQuery(e, c.context, c.preferences))

\* C36: the response of ClientPortalDataAdapter.getModuleData holds, in
\* clients, cases, documents, messages, payments and notifications, the
\* records the storage holds for the queries of the request, whether the hub
\* answered them from storage or from the cache (the store does not change).
C36_GroupingSurvivesCache ==
  (/\ pcall.op = "getModuleData"
   /\ pcall.pc = "done"
   /\ pcall.outcome = "ok"
   /\ pcall.context.module = M_clientPortal)
  => LET r == AdapterResponse(pcall)
         ids(rows) == [n \in 1..Len(rows) |-> rows[n].id]
     IN  /\ ids(r.clients) = ids(StorageGroup(pcall, Client))
         /\ ids(r.cases) = ids(StorageGroup(pcall, Case))
         /\ ids(r.documents) = ids(StorageGroup(pcall, Document))
         /\ ids(r.messages) = ids(StorageGroup(pcall, Message))
         /\ ids(r.payments) = ids(StorageGroup(pcall, Payment))
         /\ ids(r.notifications) = ids(StorageGroup(pcall, Notification))

\* C37: of a getModuleData started by getDocumentContext (useCache false),
\* no hub query has caching enabled and none is answered from the cache.
C37_DocumentContextIsFresh ==
  (pcall.op = "getModuleData" /\ pcall.context.action = W_analyzeDocument) =>
    /\ \A n \in 1..Len(pcall.queries) :
         Field(pcall.queries[n], F_cache) = JBool(FALSE)
    /\ pcall.slot \in QSlots => ~qcall[pcall.slot].hit

\* C38: a getModuleData that has failed has left the context entry of its
\* user and module as it was when the call began, and the only step that
\* adds or changes a context entry is the return of a getModuleData for the
\* user and module of that entry, none of whose hub queries failed and which
\* has issued the query of every primary and secondary entity.
C38_FailedCallKeepsContext ==
  /\ []((pcall.op = "getModuleData" /\ pcall.pc = "done" /\ pcall.outcome = "error") =>
          LET key == ContextEntryKey(pcall.context.userId, pcall.context.module)
          IN  /\ (key \in DOMAIN userContextCache) = (key \in DOMAIN pcall.ucache0)
              /\ key \in DOMAIN pcall.ucache0 => userContextCache[key] = pcall.ucache0[key])
  /\ [][\A k \in DOMAIN userContextCache' :
          (IsContextKey(k)
           /\ (k \notin DOMAIN userContextCache \/ userContextCache'[k] # userContextCache[k]))
          => /\ pcall.op = "getModuleData"
             /\ k = ContextEntryKey(pcall.context.userId, pcall.context.module)
             /\ pcall'.pc = "done"
             /\ pcall'.outcome = "ok"
             /\ pcall.failedAt = 0
             /\ Len(pcall.queries) = Len(pcall.requirements.primary)
                                       + Len(pcall.requirements.secondary)]_vars

\* A getModuleData has failed in a hub query while the context entry of its
\* user and module, written by an earlier call, was there.
C38_FailedWithContextStored ==
  /\ pcall.op = "getModuleData"
  /\ pcall.pc = "done"
  /\ pcall.outcome = "error"
  /\ pcall.failedAt > 0
  /\ ContextEntryKey(pcall.context.userId, pcall.context.module) \in DOMAIN userContextCache

====
